---- MODULE Spec2Model ----
(***************************************************************************)
(* A model of the ChittyContext runtime (packages/runtime/src/index.ts and *)
(* its Hono middleware): the ChittyID utilities, the context factory and   *)
(* lifecycle functions, and the key-value persistence layer.               *)
(*                                                                         *)
(* Conventions.  JavaScript `undefined` is None (0) for identifiers and    *)
(* numbers; strings are TLA+ strings where the code treats them as opaque, *)
(* and sequences of one-character strings where the code looks inside      *)
(* them (ChittyIDs, header values).  Objects live in `heap` and arrays in  *)
(* `arrs`, so that aliasing between a function's argument and its result   *)
(* is visible.  `made` records, for every heap object, the call that       *)
(* produced it and a snapshot of the argument at call time.                *)
(***************************************************************************)
EXTENDS Integers, Sequences, FiniteSets, TLC

VARIABLES heap, arrs, made, nextUuid, clock, cap, kv, req, got, env, run, settled, mw

vars == <<heap, arrs, made, nextUuid, clock, cap, kv, req, got, env, run, settled, mw>>

(***************************************************************************)
(* Bounds of the model.                                                    *)
(***************************************************************************)
MaxCtx == 3
MaxOps == 3
MaxSaves == 2
MaxHits == 12
MaxSeconds == 3
MaxMsgs == 3
MaxRace == 4
MaxUpdates == 2
MaxMarkers == 11
MaxCalls == 4

\* The instants at which the model reads the clock.
Instants == {0, 1}

None == 0

Max(a, b) == IF a >= b THEN a ELSE b
Min(a, b) == IF a <= b THEN a ELSE b

(***************************************************************************)
(* Strings the code inspects, as sequences of characters.                  *)
(***************************************************************************)
Digits == {"0", "1", "2", "3", "4", "5", "6", "7", "8", "9"}
Upper  == {"A", "B", "D", "O", "S", "U", "X", "Z"}
Lower  == {"a", "b", "e", "r", "u"}

\* 'a-b-c'.split('-')
RECURSIVE SplitFrom(_, _, _, _)
SplitFrom(s, sep, i, cur) ==
    IF i > Len(s) THEN <<cur>>
    ELSE IF s[i] = sep THEN <<cur>> \o SplitFrom(s, sep, i + 1, <<>>)
    ELSE SplitFrom(s, sep, i + 1, Append(cur, s[i]))

Split(s, sep) == SplitFrom(s, sep, 1, <<>>)

\* s.startsWith(p)
StartsWith(s, p) == Len(s) >= Len(p) /\ SubSeq(s, 1, Len(p)) = p

\* s.slice(n)
Slice(s, n) == SubSeq(s, n + 1, Len(s))

\* JavaScript values the ChittyID utilities are handed: a string, a
\* non-string value (a number), or null/undefined.
Str(s) == [kind |-> "string", s |-> s]
Num    == [kind |-> "number", s |-> <<>>]
Null   == [kind |-> "null", s |-> <<>>]

\* !v
Falsy(v) == v.kind = "null" \/ (v.kind = "string" /\ Len(v.s) = 0)

\* /^\d{2}$/ and /^[A-Z]$/
TwoDigits(p) == Len(p) = 2 /\ p[1] \in Digits /\ p[2] \in Digits
OneUpper(p) == Len(p) = 1 /\ p[1] \in Upper

validateChittyId(id) ==
    IF Falsy(id) \/ id.kind # "string" THEN FALSE
    ELSE LET parts == Split(id.s, "-") IN
         IF Len(parts) < 4 THEN FALSE
         ELSE IF ~TwoDigits(parts[1]) THEN FALSE
         ELSE IF ~OneUpper(parts[2]) THEN FALSE
         ELSE TRUE

Bearer == <<"B", "e", "a", "r", "e", "r", " ">>

\* extractChittyId with the bearer token looked at before the header.
extractBearerFirst(header, auth, body) ==
    IF auth.kind = "string" /\ StartsWith(auth.s, Bearer) /\ validateChittyId(Str(Slice(auth.s, 7)))
    THEN Str(Slice(auth.s, 7))
    ELSE IF ~Falsy(header) /\ validateChittyId(header) THEN header
    ELSE IF body.kind = "object" /\ ~Falsy(body.chittyId) /\ validateChittyId(body.chittyId)
    THEN body.chittyId
    ELSE Null

\* extractChittyId(request, body): header is request.headers.get('X-Chitty-ID'),
\* auth is request.headers.get('Authorization'); body is undefined or an object.
extractChittyId(header, auth, body) ==
    IF ~Falsy(header) /\ validateChittyId(header) THEN header
    ELSE IF auth.kind = "string" /\ StartsWith(auth.s, Bearer) /\ validateChittyId(Str(Slice(auth.s, 7)))
    THEN Str(Slice(auth.s, 7))
    ELSE IF body.kind = "object" /\ ~Falsy(body.chittyId) /\ validateChittyId(body.chittyId)
    THEN body.chittyId
    ELSE Null

SYSTEM_CHITTY_ID == <<"0", "1", "-", "X", "-", "S", "-", "0">>

(***************************************************************************)
(* Context factory and lifecycle (pure functions).                         *)
(***************************************************************************)
CtxKeys == {"id", "chittyId", "type", "status", "grade", "trustScore",
            "createdAt", "updatedAt", "parentContextId", "rootContextId",
            "depth", "sessionId", "requestId", "source", "dnaFingerprint",
            "outcomes"}

NoOptions == [k \in {} |-> None]

Has(o, k) == k \in DOMAIN o

\* options.k for an identifier or number: undefined when the key is absent.
Opt(o, k) == IF Has(o, k) THEN o[k] ELSE None

\* { ...base, ...o }
Spread(base, o) ==
    [k \in DOMAIN base \cup DOMAIN o |-> IF Has(o, k) THEN o[k] ELSE base[k]]

calculateGradeLax(score) ==
    IF score > 90 THEN "A"
    ELSE IF score >= 75 THEN "B"
    ELSE IF score >= 50 THEN "C"
    ELSE IF score >= 25 THEN "D"
    ELSE "F"

calculateGrade(score) ==
    IF score >= 90 THEN "A"
    ELSE IF score >= 75 THEN "B"
    ELSE IF score >= 50 THEN "C"
    ELSE IF score >= 25 THEN "D"
    ELSE "F"

\* createContext: u1, u2, u3 are the values crypto.randomUUID() returns for
\* id, sessionId and requestId, `now` the creation time and `arr` the handle
\* of the fresh empty outcomes array.
createContext(chittyId, type, options, u1, u2, u3, now, arr) ==
    LET base == [id |-> u1,
                 chittyId |-> chittyId,
                 type |-> type,
                 status |-> "active",
                 grade |-> "C",
                 trustScore |-> 50,
                 createdAt |-> now,
                 updatedAt |-> now,
                 parentContextId |-> None,
                 dnaFingerprint |-> None,
                 depth |-> IF Opt(options, "parentContextId") # None
                           THEN (IF Opt(options, "depth") # None THEN options.depth ELSE 0) + 1
                           ELSE 0,
                 sessionId |-> IF Opt(options, "sessionId") # None THEN options.sessionId ELSE u2,
                 requestId |-> IF Opt(options, "requestId") # None THEN options.requestId ELSE u3,
                 source |-> IF Has(options, "source") /\ options.source # "" THEN options.source ELSE "unknown",
                 outcomes |-> arr,
                 rootContextId |-> None]
    IN [Spread(base, options) EXCEPT
          !.rootContextId = IF Opt(options, "rootContextId") # None THEN options.rootContextId
                            ELSE IF Opt(options, "parentContextId") # None THEN None
                            ELSE u1]

\* The options createChildContext passes on to createContext.
childOptions(parent, options) ==
    Spread([parentContextId |-> parent.id,
            rootContextId |-> IF parent.rootContextId # None THEN parent.rootContextId ELSE parent.id,
            sessionId |-> parent.sessionId,
            depth |-> parent.depth + 1,
            dnaFingerprint |-> parent.dnaFingerprint],
           options)

createChildContext(parent, type, options, u1, u2, u3, now, arr) ==
    createContext(parent.chittyId, type, childOptions(parent, options), u1, u2, u3, now, arr)

\* Math.max(0, Math.min(100, score + impact))
NewScoreNoCeiling(score, impact) == Max(0, score + impact)

NewScore(score, impact) == Max(0, Min(100, score + impact))

\* { id, timestamp, ...outcome }
newOutcome(outcome, uid, ts) ==
    Spread([id |-> uid, timestamp |-> ts], outcome)

\* recordOutcome that appends the outcome and leaves the score as it was.
recordOutcomeUnscored(ctx, outcome, now, arr) ==
    [ctx EXCEPT !.updatedAt = now, !.outcomes = arr]

\* recordOutcome: `arr` is the handle of the array [...ctx.outcomes, newOutcome].
recordOutcome(ctx, outcome, now, arr) ==
    [ctx EXCEPT !.trustScore = NewScore(ctx.trustScore, outcome.scoreImpact),
                !.grade = calculateGrade(NewScore(ctx.trustScore, outcome.scoreImpact)),
                !.updatedAt = now,
                !.outcomes = arr]

promoteOutcome(ctx, reason) ==
    [type |-> "success", action |-> "promote", resource |-> ctx.id,
     details |-> reason, scoreImpact |-> 10]

demoteOutcome(ctx, reason) ==
    [type |-> "warning", action |-> "demote", resource |-> ctx.id,
     details |-> reason, scoreImpact |-> -10]

completeOutcomeSwapped(ctx, success) ==
    [type |-> IF success THEN "success" ELSE "error",
     action |-> "complete", resource |-> ctx.id,
     details |-> "", scoreImpact |-> IF success THEN -5 ELSE 5]

completeOutcome(ctx, success) ==
    [type |-> IF success THEN "success" ELSE "error",
     action |-> "complete", resource |-> ctx.id,
     details |-> "", scoreImpact |-> IF success THEN 5 ELSE -5]

completeStatus(success) == IF success THEN "completed" ELSE "failed"

\* [...old, x]: a new array, the old one untouched.  The result is the new
\* array store; the new array is its last element.
PushInPlace(as, a, x) == Append([as EXCEPT ![a] = Append(@, x)], Append(as[a], x))

SpreadAppend(as, a, x) == Append(as, Append(as[a], x))

(***************************************************************************)
(* Inputs.                                                                 *)
(***************************************************************************)
IdUser  == <<"0", "1", "-", "U", "-", "A", "-", "1">>
IdSvc   == <<"0", "2", "-", "S", "-", "B", "-", "2">>

Principals == {IdUser, IdSvc}
ContextTypes == {"session", "agent"}

Rec1(k, v) == [x \in {k} |-> v]
Rec2(k1, v1, k2, v2) == [x \in {k1, k2} |-> IF x = k1 THEN v1 ELSE v2]

\* Partial<ChittyContext> values a caller passes to createContext.
OptionValues ==
    {NoOptions,
     Rec1("id", 1),
     Rec1("parentContextId", 2),
     Rec2("parentContextId", 2, "depth", 0),
     Rec2("parentContextId", 2, "depth", 2),
     Rec1("depth", 2),
     Rec1("rootContextId", 3),
     Rec2("parentContextId", 2, "rootContextId", 3),
     Rec1("trustScore", 95),
     Rec1("grade", "A"),
     Rec1("sessionId", 4),
     Rec1("requestId", 5)}

\* Partial<ChittyContext> values a caller passes to createChildContext.
ChildOptionValues ==
    {NoOptions, Rec1("id", 6), Rec1("trustScore", 20)}

\* Outcomes a caller passes to recordOutcome.
OutcomeValues ==
    {[type |-> "info", action |-> "read", resource |-> 9, details |-> "", scoreImpact |-> 0],
     [type |-> "success", action |-> "write", resource |-> 9, details |-> "", scoreImpact |-> 60],
     [type |-> "error", action |-> "write", resource |-> 9, details |-> "", scoreImpact |-> -60],
     [type |-> "warning", action |-> "read", resource |-> 9, details |-> "", scoreImpact |-> 3]}

ExtremeOutcomes == {o \in OutcomeValues : o.scoreImpact \in {60, -60}}

Reasons == {"audit"}

Patterns == {[id |-> 7, chittyId |-> IdUser, patternType |-> "login"]}

(***************************************************************************)
(* State.                                                                  *)
(***************************************************************************)
Handles == 1 .. Len(heap)

\* crypto.randomUUID(): the n-th identifier generated so far.
Uuid(n) == 100 + n

\* new Date(): the clock may have advanced since the last reading.
Times == {clock} \cup {t \in Instants : t = clock + 1}

\* The outcomes of heap object h, as a sequence of values.
Outcomes(h) == arrs[heap[h].outcomes]

NoOutcome == [type |-> "", action |-> "", resource |-> None, details |-> "", scoreImpact |-> 0]
NoCtx == [id |-> None]

Made(op, from, opts, arg, flag) ==
    [op |-> op, from |-> from, opts |-> opts, arg |-> arg, flag |-> flag,
     pre |-> IF from = 0 THEN NoCtx ELSE heap[from],
     preOut |-> IF from = 0 THEN <<>> ELSE Outcomes(from)]

\* KVNamespace: key -> [val, exp]; an entry is readable while clock < exp.
KvPut(store, key, val, ttl, now) ==
    [k \in DOMAIN store \cup {key} |->
        IF k = key THEN [val |-> val, exp |-> now + ttl] ELSE store[k]]

KvLive(store, key, now) == key \in DOMAIN store /\ now < store[key].exp

TtlDna == 90


(***************************************************************************)
(* The Context Model: every call returns a new object.                     *)
(***************************************************************************)
CreateContext(chittyId, type, options) ==
    /\ heap = <<>>
    /\ \E now \in Times :
         /\ heap' = Append(heap, createContext(chittyId, type, options,
                                   Uuid(nextUuid + 1), Uuid(nextUuid + 2), Uuid(nextUuid + 3),
                                   now, Len(arrs) + 1))
         /\ clock' = now
    /\ arrs' = Append(arrs, <<>>)
    /\ made' = Append(made, Made("create", 0, options, NoOutcome, FALSE))
    /\ nextUuid' = nextUuid + 3
    /\ UNCHANGED <<mw, cap, kv, req, got, env, run, settled>>

CreateChildContext(h, type, options) ==
    /\ Len(heap) < cap
    /\ h \in Handles
    /\ \E now \in Times :
         /\ heap' = Append(heap, createChildContext(heap[h], type, options,
                                   Uuid(nextUuid + 1), Uuid(nextUuid + 2), Uuid(nextUuid + 3),
                                   now, Len(arrs) + 1))
         /\ clock' = now
    /\ arrs' = Append(arrs, <<>>)
    /\ made' = Append(made, Made("createChild", h, options, NoOutcome, FALSE))
    /\ nextUuid' = nextUuid + 3
    /\ UNCHANGED <<mw, cap, kv, req, got, env, run, settled>>

\* recordOutcome(heap[h], o), with `status` the status of the returned value.
Record(h, o, op, flag, status) ==
    /\ Len(heap) < cap
    /\ h \in Handles
    /\ \E t1 \in Times : \E t2 \in {t1} \cup {t \in Instants : t = t1 + 1} :
         LET x == newOutcome(o, Uuid(nextUuid + 1), t1)
             grown == SpreadAppend(arrs, heap[h].outcomes, x)
         IN /\ arrs' = grown
            /\ heap' = Append(heap, [recordOutcome(heap[h], o, t2, Len(grown))
                                       EXCEPT !.status = status])
            /\ clock' = t2
    /\ made' = Append(made, Made(op, h, NoOptions, o, flag))
    /\ nextUuid' = nextUuid + 1
    /\ UNCHANGED <<mw, cap, kv, req, got, env, run, settled>>

RecordOutcome(h, o) ==
    /\ h \in Handles
    /\ Record(h, o, "recordOutcome", FALSE, heap[h].status)

PromoteContext(h, reason) ==
    /\ h \in Handles
    /\ Record(h, promoteOutcome(heap[h], reason), "promote", FALSE, heap[h].status)

DemoteContext(h, reason) ==
    /\ h \in Handles
    /\ Record(h, demoteOutcome(heap[h], reason), "demote", FALSE, heap[h].status)

CompleteContext(h, success) ==
    /\ h \in Handles
    /\ Record(h, completeOutcome(heap[h], success), "complete", success, completeStatus(success))

LinkDNAPattern(h, pattern) ==
    /\ Len(heap) < cap
    /\ h \in Handles
    /\ \E now \in Times :
         /\ kv' = KvPut(kv, <<"dna:ctx", heap[h].id>>, pattern, TtlDna, clock)
         /\ heap' = Append(heap, [heap[h] EXCEPT !.dnaFingerprint = pattern.id,
                                                  !.updatedAt = now])
         /\ clock' = now
    /\ made' = Append(made, Made("linkDNAPattern", h, NoOptions, NoOutcome, FALSE))
    /\ UNCHANGED <<mw, arrs, nextUuid, cap, req, got, env, run, settled>>

\* The lifecycle of one context created with default options.
Init ==
    /\ heap = <<>>
    /\ arrs = <<>>
    /\ made = <<>>
    /\ nextUuid = 0
    /\ clock = 0
    /\ cap = 1 + MaxOps
    /\ kv = [k \in {} |-> None]
    /\ req = None
    /\ got = None
    /\ env = None
    /\ run = None
    /\ settled = None
    /\ mw = None

Next ==
    \/ \E c \in {IdUser}, t \in {"session"} : CreateContext(c, t, NoOptions)
    \/ \E h \in Handles, o \in OutcomeValues : RecordOutcome(h, o)
    \/ \E h \in Handles, r \in Reasons : PromoteContext(h, r)
    \/ \E h \in Handles, r \in Reasons : DemoteContext(h, r)
    \/ \E h \in Handles, b \in BOOLEAN : CompleteContext(h, b)

Spec == Init /\ [][Next]_vars

\* The factory with caller-supplied options, provenance chains, and the
\* lifecycle of the values made.
InitCreate ==
    /\ heap = <<>>
    /\ arrs = <<>>
    /\ made = <<>>
    /\ nextUuid = 0
    /\ clock = 0
    /\ cap = MaxCtx
    /\ kv = [k \in {} |-> None]
    /\ req = None
    /\ got = None
    /\ env = None
    /\ run = None
    /\ settled = None
    /\ mw = None

NextCreate ==
    \/ \E c \in Principals, o \in OptionValues : CreateContext(c, "session", o)
    \/ \E h \in Handles, o \in ChildOptionValues : CreateChildContext(h, "agent", o)
    \/ \E h \in Handles, o \in ExtremeOutcomes : RecordOutcome(h, o)
    \/ \E h \in Handles, r \in Reasons : PromoteContext(h, r)
    \/ \E h \in Handles, r \in Reasons : DemoteContext(h, r)
    \/ \E h \in Handles, b \in BOOLEAN : CompleteContext(h, b)
    \/ \E h \in Handles, p \in Patterns : LinkDNAPattern(h, p)

SpecCreate == InitCreate /\ [][NextCreate]_vars

(***************************************************************************)
(* Properties of the Context Model.                                        *)
(***************************************************************************)
Derived(h) == made[h].op \in {"recordOutcome", "promote", "demote", "complete"}

Last(q) == q[Len(q)]

\* C1: every context reached from create (default options) by recordOutcome,
\* promote, demote and complete has an integer trustScore in [0,100], and
\* each step yields clamp(old trustScore + scoreImpact, 0, 100).
C1_TrustScoreClamped ==
    \A h \in Handles :
        /\ heap[h].trustScore \in 0 .. 100
        /\ Derived(h) =>
             LET raw == made[h].pre.trustScore + made[h].arg.scoreImpact
             IN heap[h].trustScore = (IF raw < 0 THEN 0 ELSE IF raw > 100 THEN 100 ELSE raw)

\* 95 with impact +10 gives 100, not 105.
C1_Witness ==
    \E h \in Handles : /\ Derived(h)
                       /\ made[h].pre.trustScore = 95
                       /\ made[h].arg.scoreImpact = 10
                       /\ heap[h].trustScore = 100

\* The fields recordOutcome may change.
Touched == {"trustScore", "grade", "updatedAt", "outcomes"}

\* C7: recordOutcome(ctx, o) returns a context whose outcomes are ctx's
\* outcomes followed by one new outcome carrying o's type, action, resource
\* and scoreImpact, whose other fields (all but trustScore, grade, updatedAt,
\* outcomes) equal ctx's; ctx and its outcomes array are left as they were.
C7_RecordOutcomeFrame ==
    \A h \in Handles :
        made[h].op = "recordOutcome" =>
            LET m == made[h] IN
            /\ Len(Outcomes(h)) = Len(m.preOut) + 1
            /\ SubSeq(Outcomes(h), 1, Len(m.preOut)) = m.preOut
            /\ Last(Outcomes(h)).type = m.arg.type
            /\ Last(Outcomes(h)).action = m.arg.action
            /\ Last(Outcomes(h)).resource = m.arg.resource
            /\ Last(Outcomes(h)).scoreImpact = m.arg.scoreImpact
            /\ \A k \in CtxKeys \ Touched : heap[h][k] = m.pre[k]
            /\ heap[m.from] = m.pre
            /\ Outcomes(m.from) = m.preOut

\* recordOutcome applied to a context that already has outcomes.
C7_Witness ==
    \E h \in Handles : /\ made[h].op = "recordOutcome"
                       /\ Len(made[h].preOut) >= 1
                       /\ Len(Outcomes(h)) = Len(made[h].preOut) + 1

\* The outcome promote, demote and complete are to append.
Appended(h, type, action, impact) ==
    /\ Len(Outcomes(h)) = Len(made[h].preOut) + 1
    /\ SubSeq(Outcomes(h), 1, Len(made[h].preOut)) = made[h].preOut
    /\ Last(Outcomes(h)).type = type
    /\ Last(Outcomes(h)).action = action
    /\ Last(Outcomes(h)).resource = made[h].pre.id
    /\ Last(Outcomes(h)).scoreImpact = impact

\* C8: promote appends (success, promote, +10), demote (warning, demote, -10),
\* complete(ctx, true) (success, complete, +5) with status completed,
\* complete(ctx, false) (error, complete, -5) with status failed, each one
\* outcome whose resource is the context's id; promote and demote keep the
\* status; complete(ctx, false) at trustScore 50 gives 45, grade D, failed.
C8_PromoteDemoteComplete ==
    \A h \in Handles :
        LET m == made[h] IN
        /\ m.op = "promote" =>
             Appended(h, "success", "promote", 10) /\ heap[h].status = m.pre.status
        /\ m.op = "demote" =>
             Appended(h, "warning", "demote", -10) /\ heap[h].status = m.pre.status
        /\ (m.op = "complete" /\ m.flag) =>
             Appended(h, "success", "complete", 5) /\ heap[h].status = "completed"
        /\ (m.op = "complete" /\ ~m.flag) =>
             Appended(h, "error", "complete", -5) /\ heap[h].status = "failed"
        /\ (m.op = "complete" /\ ~m.flag /\ m.pre.status = "active" /\ m.pre.trustScore = 50) =>
             heap[h].trustScore = 45 /\ heap[h].grade = "D" /\ heap[h].status = "failed"

\* complete(ctx, false) on an active context with trustScore 50, and a
\* promote and a demote of a context that is no longer active.
C8_Witness ==
    /\ \E h \in Handles : /\ made[h].op = "complete" /\ ~made[h].flag
                          /\ made[h].pre.status = "active" /\ made[h].pre.trustScore = 50
                          /\ heap[h].trustScore = 45
    /\ \E h \in Handles : made[h].op = "complete" /\ made[h].flag /\ heap[h].status = "completed"
    /\ \E h \in Handles : made[h].op \in {"promote", "demote"} /\ heap[h].status # "active"

\* The score after the outcomes outs, starting from score.
RECURSIVE Replay(_, _)
Replay(score, outs) ==
    IF outs = <<>> THEN score
    ELSE LET raw == score + Head(outs).scoreImpact
         IN Replay(IF raw < 0 THEN 0 ELSE IF raw > 100 THEN 100 ELSE raw, Tail(outs))

\* The number of operations applied to the created context to reach h.
RECURSIVE OpsApplied(_)
OpsApplied(h) == IF made[h].from = 0 THEN 0 ELSE 1 + OpsApplied(made[h].from)

\* C24: for every context reached from create (default options) by
\* recordOutcome, promote, demote and complete, trustScore is determined by
\* the outcomes alone: it is the result of starting at 50 and applying
\* s := clamp(s + scoreImpact, 0, 100) for each outcome in order, and the
\* number of outcomes is the number of operations applied.
C24_ScoreFromOutcomes ==
    \A h \in Handles :
        /\ heap[h].trustScore = Replay(50, Outcomes(h))
        /\ Len(Outcomes(h)) = OpsApplied(h)

\* Three operations, the ceiling met on the way: 50, 100, 100, 40.
C24_Witness ==
    \E h \in Handles :
        /\ OpsApplied(h) = 3 /\ Len(Outcomes(h)) = 3
        /\ Outcomes(h)[1].scoreImpact = 60 /\ Outcomes(h)[2].scoreImpact = 60
        /\ Outcomes(h)[3].scoreImpact = -60
        /\ heap[h].trustScore = 40

\* C25: a context whose status has become completed or failed is terminal:
\* no later operation of the Context Model (recordOutcome, promote, demote,
\* complete with either argument) yields a context with another status.
C25_TerminalStatus ==
    \A h \in Handles :
        (Derived(h) /\ made[h].pre.status \in {"completed", "failed"}) =>
            heap[h].status = made[h].pre.status

\* What does hold: recordOutcome, promote and demote keep the status.
StatusKeptByRecord ==
    \A h \in Handles :
        made[h].op \in {"recordOutcome", "promote", "demote"} =>
            heap[h].status = made[h].pre.status

(***************************************************************************)
(* Properties of the factory and of provenance chains (SpecCreate).        *)
(***************************************************************************)
\* The thresholds of the grade: A from 90, B from 75, C from 50, D from 25.
GradeOf(score) ==
    CASE score >= 90 -> "A"
      [] score >= 75 /\ score < 90 -> "B"
      [] score >= 50 /\ score < 75 -> "C"
      [] score >= 25 /\ score < 50 -> "D"
      [] OTHER -> "F"

\* C2: in every Context value the Context Model operations produce (create
\* and createChild with any caller-supplied options, recordOutcome, promote,
\* demote, complete, linkPattern) grade is the threshold function of the
\* value's trustScore.
C2_GradeMatchesScore ==
    \A h \in Handles : heap[h].grade = GradeOf(heap[h].trustScore)

\* The part of C2 the code keeps: the values recordOutcome, promote, demote
\* and complete return are graded by their own trustScore.
GradeRecomputed ==
    \A h \in Handles : Derived(h) => heap[h].grade = GradeOf(heap[h].trustScore)

\* A root: made by create with options that name no parent (and no root or
\* depth of their own).
IsRoot(h) ==
    /\ made[h].op = "create"
    /\ ~Has(made[h].opts, "parentContextId")
    /\ ~Has(made[h].opts, "rootContextId")
    /\ ~Has(made[h].opts, "depth")

\* The chain of h: built from a root by createChild calls without options.
RECURSIVE InChain(_)
InChain(h) ==
    \/ IsRoot(h)
    \/ /\ made[h].op = "createChild"
       /\ made[h].opts = NoOptions
       /\ InChain(made[h].from)

RECURSIVE ChainRoot(_)
ChainRoot(h) == IF made[h].op = "create" THEN h ELSE ChainRoot(made[h].from)

RECURSIVE Distance(_)
Distance(h) == IF made[h].op = "create" THEN 0 ELSE 1 + Distance(made[h].from)

\* Each link of a chain: the child names its parent, is one deeper, has the
\* parent's principal and the parent's root (the parent itself if it has none).
LinkOk(h) ==
    LET p == heap[made[h].from] IN
    /\ heap[h].parentContextId = p.id
    /\ heap[h].depth = p.depth + 1
    /\ heap[h].chittyId = p.chittyId
    /\ heap[h].rootContextId = (IF p.rootContextId # None THEN p.rootContextId ELSE p.id)

\* C3: in a provenance chain built by createChild from a root made by create
\* with no parent, every derived context satisfies the link relation, and
\* hence every context of the chain carries the chain root's id as
\* rootContextId and has depth equal to its distance from the root.
C3_ProvenanceChain ==
    \A h \in Handles :
        InChain(h) =>
            /\ made[h].op = "createChild" => LinkOk(h)
            /\ heap[h].rootContextId = heap[ChainRoot(h)].id
            /\ heap[h].depth = Distance(h)

\* What holds of every chain, whatever the root's options: the link relation.
ChainLinks ==
    \A h \in Handles : (InChain(h) /\ made[h].op = "createChild") => LinkOk(h)

\* What holds of the chains whose root has a generated id.
ChainOfGeneratedRoot ==
    \A h \in Handles :
        (InChain(h) /\ ~Has(made[ChainRoot(h)].opts, "id")) =>
            /\ heap[h].rootContextId = heap[ChainRoot(h)].id
            /\ heap[h].depth = Distance(h)

\* C4: create returns depth 0 when options.parentContextId is not set and
\* (options.depth or 0) + 1 when it is; so depth = 0 iff no parentContextId.
C4_DepthRule ==
    \A h \in Handles :
        made[h].op = "create" =>
            LET o == made[h].opts IN
            /\ heap[h].depth = (IF Opt(o, "parentContextId") = None THEN 0
                                ELSE Opt(o, "depth") + 1)
            /\ heap[h].depth = 0 <=> heap[h].parentContextId = None

\* C5: a context made by create with neither parentContextId nor
\* rootContextId in the options has rootContextId equal to its own id,
\* whatever else the options supply (an explicit id included).
C5_RootIsSelf ==
    \A h \in Handles :
        (/\ made[h].op = "create"
         /\ Opt(made[h].opts, "parentContextId") = None
         /\ Opt(made[h].opts, "rootContextId") = None) =>
            heap[h].rootContextId = heap[h].id

\* C6: a context derived with createChild and no overriding options has the
\* sessionId and the requestId of its parent.
C6_ChildInheritsIds ==
    \A h \in Handles :
        (made[h].op = "createChild" /\ made[h].opts = NoOptions) =>
            /\ heap[h].sessionId = made[h].pre.sessionId
            /\ heap[h].requestId = made[h].pre.requestId

\* The part of C6 the code keeps: the sessionId.
ChildInheritsSession ==
    \A h \in Handles :
        (made[h].op = "createChild" /\ made[h].opts = NoOptions) =>
            heap[h].sessionId = made[h].pre.sessionId

(***************************************************************************)
(* Identity extraction (SpecExtract): one request, one call.               *)
(***************************************************************************)
IdDev   == <<"0", "3", "-", "D", "-", "A", "-", "3">>
IdOneDigit == <<"1", "-", "U", "-", "A", "-", "1">>
IdLowerGroup == <<"0", "1", "-", "u", "-", "A", "-", "1">>
IdThreeParts == <<"0", "1", "-", "U", "-", "A">>

\* request.headers.get('X-Chitty-ID')
HeaderValues == {Null, Str(<<>>), Str(IdUser), Str(IdOneDigit), Str(IdThreeParts)}

\* request.headers.get('Authorization')
AuthValues ==
    {Null, Str(Bearer \o IdSvc), Str(Bearer \o IdUser), Str(Bearer \o IdLowerGroup),
     Str(<<"b">> \o Slice(Bearer, 1) \o IdSvc), Str(IdSvc), Str(Bearer)}

\* the parsed body
BodyValues ==
    {[kind |-> "undefined", chittyId |-> Null],
     [kind |-> "object", chittyId |-> Null],
     [kind |-> "object", chittyId |-> Str(IdDev)],
     [kind |-> "object", chittyId |-> Str(IdThreeParts)],
     [kind |-> "object", chittyId |-> Num]}

InitExtract ==
    /\ heap = <<>>
    /\ arrs = <<>>
    /\ made = <<>>
    /\ nextUuid = 0
    /\ clock = 0
    /\ cap = 0
    /\ kv = [k \in {} |-> None]
    /\ req \in [header : HeaderValues, auth : AuthValues, body : BodyValues]
    /\ got = <<>>
    /\ env = None
    /\ run = None
    /\ settled = None
    /\ mw = None

ExtractChittyId ==
    /\ got = <<>>
    /\ got' = <<extractChittyId(req.header, req.auth, req.body)>>
    /\ UNCHANGED <<mw, heap, arrs, made, nextUuid, clock, cap, kv, req, env, run, settled>>

NextExtract == ExtractChittyId

SpecExtract == InitExtract /\ [][NextExtract]_vars

\* The bearer token of an Authorization header, if it is one.
IsBearer(auth) == auth.kind = "string" /\ StartsWith(auth.s, Bearer)
TokenOf(auth) == Str(Slice(auth.s, 7))

HeaderValid == validateChittyId(req.header)
BearerValid == IsBearer(req.auth) /\ validateChittyId(TokenOf(req.auth))
BodyValid == req.body.kind = "object" /\ validateChittyId(req.body.chittyId)

\* C9: extractFromRequest returns the identity header if it validates;
\* otherwise the bearer token if the Authorization header is a bearer token
\* that validates; otherwise the body's identity field if it validates;
\* otherwise null.  A valid header wins over a different valid bearer token,
\* and an invalid candidate never blocks a valid one of lower precedence.
C9_ExtractPrecedence ==
    got # <<>> =>
        /\ HeaderValid => got[1] = req.header
        /\ (~HeaderValid /\ BearerValid) => got[1] = TokenOf(req.auth)
        /\ (~HeaderValid /\ ~BearerValid /\ BodyValid) => got[1] = req.body.chittyId
        /\ (~HeaderValid /\ ~BearerValid /\ ~BodyValid) => got[1] = Null

\* A valid header together with a different valid bearer token.
C9_Witness ==
    /\ got # <<>>
    /\ HeaderValid /\ BearerValid /\ BodyValid
    /\ TokenOf(req.auth) # req.header
    /\ got[1] = req.header

(***************************************************************************)
(* The persistence layer (SpecStore).  Time is counted in days (86400 s).  *)
(* Every await of saveContext is a step, so calls of different request     *)
(* tasks interleave between the puts.                                      *)
(***************************************************************************)
Ttl30Days == 30
Ttl7Days == 7
Ttl1Day == 1

\* Request tasks: task 1 saves, task 2 loads, each between any two awaits of
\* the other.
Tasks == {1, 2}
Writers == {1}
Readers == {2}

OptionalKeys == {"parentContextId", "rootContextId", "dnaFingerprint"}
OutcomeKeys == {"id", "timestamp", "type", "action", "resource", "details", "scoreImpact"}

\* JSON.stringify of an outcome: a key whose value is undefined is left out.
stringifyOutcome(x) ==
    [k \in {k \in DOMAIN x : ~(k = "details" /\ x[k] = "")} |-> x[k]]

\* JSON.stringify(ctx): the outcomes array is written out in place, and a key
\* whose value is undefined is left out.
stringify(ctx, outs) ==
    [k \in {k \in DOMAIN ctx : ~(k \in OptionalKeys /\ ctx[k] = None)} |->
        IF k = "outcomes" THEN [i \in 1 .. Len(outs) |-> stringifyOutcome(outs[i])]
        ELSE ctx[k]]

\* JSON.parse: reading a key the text does not have gives undefined.
parseOutcome(j) == [k \in OutcomeKeys |-> IF k \in DOMAIN j THEN j[k] ELSE ""]

parseOutcomes(json) == [i \in 1 .. Len(json.outcomes) |-> parseOutcome(json.outcomes[i])]

\* The parsed context, with its outcomes array written out.
parse(json) ==
    [k \in CtxKeys |-> IF k = "outcomes" THEN parseOutcomes(json)
                       ELSE IF k \in DOMAIN json THEN json[k]
                       ELSE None]

\* The keys of saveContext.
PrimaryKey(id) == <<"ctx", id>>
ByChittyKey(chittyId, id) == <<"ctx:chitty", chittyId, id>>
ByTypeKey(type, id) == <<"ctx:type", type, id>>
BySessionKey(sessionId, id) == <<"ctx:session", sessionId, id>>
ActiveKey(chittyId, id) == <<"ctx:active", chittyId, id>>

\* put(`ctx:${ctx.sessionId}`, ...): the primary record under the wrong key.
putPrimaryBySession(store, ctx, outs, now) ==
    KvPut(store, PrimaryKey(ctx.sessionId), stringify(ctx, outs), Ttl30Days, now)

\* put(`ctx:${ctx.id}`, JSON.stringify(ctx), { expirationTtl: 86400 * 30 })
putPrimary(store, ctx, outs, now) ==
    KvPut(store, PrimaryKey(ctx.id), stringify(ctx, outs), Ttl30Days, now)

\* KVNamespace.get: the value, or null (<<>>) when absent or expired.
KvGet(store, key, now) == IF KvLive(store, key, now) THEN <<store[key].val>> ELSE <<>>

\* The value of heap object h with its outcomes array written out.
Deep(h) == [heap[h] EXCEPT !.outcomes = Outcomes(h)]

\* The contexts request tasks hold when the store is first used: an active
\* session context, the same context after completeContext(ctx, true), and
\* a context created with a parentContextId but no rootContextId.
StoreActive == createContext(IdUser, "session", NoOptions, Uuid(1), Uuid(2), Uuid(3), 0, 1)
StoreDone == [recordOutcome(StoreActive, completeOutcome(StoreActive, TRUE), 0, 2)
                EXCEPT !.status = completeStatus(TRUE)]
StoreOrphanOptions == Rec1("parentContextId", 2)
StoreOrphan == createContext(IdSvc, "agent", StoreOrphanOptions, Uuid(5), Uuid(6), Uuid(7), 0, 3)

StoreIds == {StoreActive.id, StoreOrphan.id}

\* An id no context is ever saved under: the parent named by StoreOrphan.
UnknownId == StoreOrphan.parentContextId
LoadIds == StoreIds \cup {UnknownId}

Idle == [pc |-> "idle", h |-> 0, id |-> None, res |-> <<>>, clean |-> FALSE,
         want |-> <<>>, live |-> FALSE, hadPrimary |-> FALSE, hadIndex |-> FALSE,
         at |-> "none"]

InitStore ==
    /\ heap = <<StoreActive, StoreDone, StoreOrphan>>
    /\ arrs = << <<>>, <<newOutcome(completeOutcome(StoreActive, TRUE), Uuid(4), 0)>>, <<>> >>
    /\ made = <<[op |-> "create", from |-> 0, opts |-> NoOptions, arg |-> NoOutcome,
                 flag |-> FALSE, pre |-> NoCtx, preOut |-> <<>>],
                [op |-> "complete", from |-> 1, opts |-> NoOptions,
                 arg |-> completeOutcome(StoreActive, TRUE),
                 flag |-> TRUE, pre |-> StoreActive, preOut |-> <<>>],
                [op |-> "create", from |-> 0, opts |-> StoreOrphanOptions, arg |-> NoOutcome,
                 flag |-> FALSE, pre |-> NoCtx, preOut |-> <<>>]>>
    /\ nextUuid = 7
    /\ clock = 0
    /\ cap = 3
    /\ kv = [k \in {} |-> None]
    /\ req = None
    /\ got = <<>>
    /\ env \in [queue : BOOLEAN]
    /\ run = [t \in Tasks |-> Idle]
    /\ settled = [i \in StoreIds |-> <<>>]
    /\ mw = None

AtRest(t) == run[t].pc \in {"idle", "saved", "failed", "loaded"}

\* The saveContext calls made so far: each adds one entry to `got`.
Saves == Len(got)
Saving(t) == run[t].pc \in {"byChitty", "byType", "bySession", "active", "notify"}

\* Where saveContext goes after the session index: the active marker only
\* for an active context, the notification only with a queue bound.
AfterIndexes(ctx) ==
    IF ctx.status = "active" THEN "active"
    ELSE IF env.queue THEN "notify"
    ELSE "saved"

AfterActive == IF env.queue THEN "notify" ELSE "saved"

\* The ghost `settled`: the value of the last save of an id that has
\* completed with no other primary write of that id since it wrote its own.
Settle(t, pc) ==
    IF pc = "saved" /\ run[t].clean
    THEN [settled EXCEPT ![run[t].id] = <<[val |-> Deep(run[t].h), until |-> kv[PrimaryKey(run[t].id)].exp]>>]
    ELSE settled

\* saveContext(env, heap[h]) up to its first put taking effect.
SavePrimary(t, h) ==
    /\ t \in Writers
    /\ AtRest(t) /\ Saves < MaxSaves
    /\ h \in Handles
    /\ got' = Append(got, "call")
    /\ kv' = putPrimary(kv, heap[h], Outcomes(h), clock)
    /\ run' = [u \in Tasks |->
                 IF u = t THEN [Idle EXCEPT !.pc = "byChitty", !.h = h, !.id = heap[h].id,
                                            !.clean = TRUE]
                 ELSE IF run[u].id = heap[h].id THEN [run[u] EXCEPT !.clean = FALSE]
                 ELSE run[u]]
    /\ settled' = [i \in DOMAIN settled |-> IF i = heap[h].id THEN <<>> ELSE settled[i]]
    /\ UNCHANGED <<mw, heap, arrs, made, nextUuid, clock, cap, req, env>>

SaveByChitty(t) ==
    /\ run[t].pc = "byChitty"
    /\ LET ctx == heap[run[t].h] IN
       kv' = KvPut(kv, ByChittyKey(ctx.chittyId, ctx.id), ctx.id, Ttl30Days, clock)
    /\ run' = [run EXCEPT ![t].pc = "byType"]
    /\ UNCHANGED <<mw, heap, arrs, made, nextUuid, clock, cap, req, got, env, settled>>

SaveByType(t) ==
    /\ run[t].pc = "byType"
    /\ LET ctx == heap[run[t].h] IN
       kv' = KvPut(kv, ByTypeKey(ctx.type, ctx.id), ctx.id, Ttl30Days, clock)
    /\ run' = [run EXCEPT ![t].pc = "bySession"]
    /\ UNCHANGED <<mw, heap, arrs, made, nextUuid, clock, cap, req, got, env, settled>>

SaveBySession(t) ==
    /\ run[t].pc = "bySession"
    /\ LET ctx == heap[run[t].h] IN
       /\ kv' = KvPut(kv, BySessionKey(ctx.sessionId, ctx.id), ctx.id, Ttl7Days, clock)
       /\ run' = [run EXCEPT ![t].pc = AfterIndexes(ctx)]
       /\ settled' = Settle(t, AfterIndexes(ctx))
    /\ UNCHANGED <<mw, heap, arrs, made, nextUuid, clock, cap, req, got, env>>

SaveActive(t) ==
    /\ run[t].pc = "active"
    /\ LET ctx == heap[run[t].h] IN
       kv' = KvPut(kv, ActiveKey(ctx.chittyId, ctx.id), ctx.id, Ttl1Day, clock)
    /\ run' = [run EXCEPT ![t].pc = AfterActive]
    /\ settled' = Settle(t, AfterActive)
    /\ UNCHANGED <<mw, heap, arrs, made, nextUuid, clock, cap, req, got, env>>

\* await env.CHITTY_TASKS.send(...) resolves.
SaveNotify(t) ==
    /\ run[t].pc = "notify"
    /\ run' = [run EXCEPT ![t].pc = "saved"]
    /\ settled' = Settle(t, "saved")
    /\ UNCHANGED <<mw, heap, arrs, made, nextUuid, clock, cap, kv, req, got, env>>

\* A put or the send rejects: saveContext has no try/catch, so it rejects.
\* `at` keeps the await that rejected.
SaveThrows(t) ==
    /\ Saving(t)
    /\ run' = [run EXCEPT ![t].pc = "failed", ![t].at = run[t].pc]
    /\ UNCHANGED <<mw, heap, arrs, made, nextUuid, clock, cap, kv, req, got, env, settled>>

\* Whether an index entry of saveContext for context id is readable.
IndexLive(id) ==
    \E k \in DOMAIN kv : k[1] # "ctx" /\ k[1] # "dna:ctx" /\ k[Len(k)] = id /\ KvLive(kv, k, clock)

\* data ? JSON.parse(data) : null, with null as <<>>.
loadContextFromIndex(store, id, now) ==
    IF KvLive(store, PrimaryKey(id), now) THEN <<parse(store[PrimaryKey(id)].val)>>
    ELSE IF \E k \in DOMAIN store : k[1] = "ctx:type" /\ k[3] = id /\ KvLive(store, k, now)
    THEN <<[k \in CtxKeys |-> IF k = "outcomes" THEN <<>> ELSE IF k = "id" THEN id ELSE None]>>
    ELSE <<>>

\* loadContext(env, id)
loadContext(store, id, now) ==
    LET data == KvGet(store, PrimaryKey(id), now)
    IN IF data # <<>> THEN <<parse(data[1])>> ELSE <<>>

LoadContext(t, id) ==
    /\ t \in Readers
    /\ AtRest(t)
    /\ run' = [run EXCEPT ![t] =
                 [Idle EXCEPT !.pc = "loaded", !.id = id,
                              !.res = loadContext(kv, id, clock),
                              !.want = IF id \in DOMAIN settled /\ settled[id] # <<>>
                                       THEN <<settled[id][1].val>> ELSE <<>>,
                              !.live = /\ id \in DOMAIN settled /\ settled[id] # <<>>
                                       /\ clock < settled[id][1].until,
                              !.hadPrimary = KvLive(kv, PrimaryKey(id), clock),
                              !.hadIndex = IndexLive(id)]]
    /\ UNCHANGED <<mw, heap, arrs, made, nextUuid, clock, cap, kv, req, got, env, settled>>

\* The store at time `now`: expired entries are gone.
KvAt(store, now) == [k \in {k \in DOMAIN store : store[k].exp > now} |-> store[k]]

\* A day passes.
Tick ==
    /\ clock + 1 \in Instants
    /\ clock' = clock + 1
    /\ kv' = KvAt(kv, clock + 1)
    /\ UNCHANGED <<mw, heap, arrs, made, nextUuid, cap, req, got, env, run, settled>>

\* Time passes until the next stored entry expires.
Elapse ==
    /\ \A t \in Tasks : AtRest(t)
    /\ \E k \in DOMAIN kv : kv[k].exp > clock
    /\ LET next == CHOOSE e \in {kv[k].exp : k \in DOMAIN kv} :
                       /\ e > clock
                       /\ \A k \in DOMAIN kv : kv[k].exp > clock => e <= kv[k].exp
       IN /\ clock' = next
          /\ kv' = KvAt(kv, next)
    /\ UNCHANGED <<mw, heap, arrs, made, nextUuid, cap, req, got, env, run, settled>>

NextStore ==
    \/ \E t \in Writers, h \in Handles : SavePrimary(t, h)
    \/ \E t \in Tasks : SaveByChitty(t)
    \/ \E t \in Tasks : SaveByType(t)
    \/ \E t \in Tasks : SaveBySession(t)
    \/ \E t \in Tasks : SaveActive(t)
    \/ \E t \in Tasks : SaveNotify(t)
    \/ \E t \in Tasks : SaveThrows(t)
    \/ \E t \in Readers, i \in LoadIds : LoadContext(t, i)
    \/ Tick
    \/ Elapse

SpecStore == InitStore /\ [][NextStore]_vars

\* C10: after save(ctx) has completed successfully, a load(ctx.id) issued
\* before any expiry or other save of that id returns a value equal to ctx
\* in all fields; a load of an id whose primary record is absent returns
\* absence (null), even when index entries for that id exist.
C10_SaveLoadRoundTrip ==
    \A t \in Readers :
        run[t].pc = "loaded" =>
            /\ (run[t].want # <<>> /\ run[t].live) =>
                  /\ run[t].res # <<>>
                  /\ \A k \in CtxKeys : run[t].res[1][k] = run[t].want[1][k]
            /\ ~run[t].hadPrimary => run[t].res = <<>>

\* A saved context with outcomes has been loaded back.
C10_Witness ==
    \E t \in Readers :
        /\ run[t].pc = "loaded" /\ run[t].want # <<>> /\ run[t].live /\ run[t].res # <<>>
        /\ Len(run[t].res[1].outcomes) > 0

\* An id has been loaded whose primary record has expired while an index
\* entry for it is still readable.
AbsentPrimaryWithIndex ==
    \E t \in Readers :
        run[t].pc = "loaded" /\ ~run[t].hadPrimary /\ run[t].hadIndex /\ run[t].res = <<>>

\* A context with an undefined rootContextId has been loaded back.
UndefinedFieldRoundTrip ==
    \E t \in Readers :
        /\ run[t].pc = "loaded" /\ run[t].want # <<>> /\ run[t].live /\ run[t].res # <<>>
        /\ run[t].res[1].rootContextId = None /\ run[t].res[1].parentContextId # None

\* C11: when a notification channel is configured and the enqueue fails,
\* save(ctx) still completes successfully provided every key-value write
\* succeeded: no saveContext call is rejected by its send.
C11_EnqueueFailureNotPropagated ==
    \A t \in Writers : run[t].pc = "failed" => run[t].at # "notify"

\* A save with a queue bound has resolved after its send.
SaveNotified ==
    \E t \in Writers : run[t].pc = "saved" /\ env.queue

\* The primary record stored for context id, as a set of at most one value.
PrimaryAt(store, id, now) ==
    {parse(store[k].val) : k \in {k \in DOMAIN store : k = PrimaryKey(id) /\ KvLive(store, k, now)}}

StoredPrimary(id) == PrimaryAt(kv, id, clock)

\* The ids with a readable active-context marker.
MarkedActive ==
    {k[3] : k \in {k \in DOMAIN kv : k[1] = "ctx:active" /\ KvLive(kv, k, clock)}}

\* C12: an active-context marker for a context id is present only while
\* the primary record for that id has status active.
C12_ActiveMarkerOnlyWhileActive ==
    \A id \in MarkedActive :
        \E p \in StoredPrimary(id) : p.status = "active"

\* The marker of a context whose primary record is active is there.
ActiveMarkerWritten ==
    \E id \in MarkedActive : \E p \in StoredPrimary(id) : p.status = "active"

(***************************************************************************)
(* Index queries (SpecQuery): listContexts and getActiveContext, one step  *)
(* per await, running against a task that saves.  The state of the query   *)
(* is in `req`.                                                            *)
(***************************************************************************)
\* A context created with the id of StoreActive and another type, and a
\* second context of the same principal created a day later.
StoreRetypedOptions == Rec1("id", StoreActive.id)
StoreRetyped == createContext(IdUser, "agent", StoreRetypedOptions, Uuid(8), Uuid(9), Uuid(10), 0, 4)
StoreLater == createContext(IdUser, "agent", NoOptions, Uuid(11), Uuid(12), Uuid(13), 1, 5)

\* limit: 10 of getActiveContext and options.limit || 50 of listContexts.
ActiveScanLimit == 10
DefaultListLimit == 50

\* The smallest element of a non-empty set of key tails.
Least(S) == CHOOSE x \in S : \A y \in S : x <= y

RECURSIVE Ascending(_)
Ascending(S) == IF S = {} THEN <<>> ELSE <<Least(S)>> \o Ascending(S \ {Least(S)})

\* KVNamespace.list({ prefix, limit }): the readable keys under the prefix
\* <<index, owner>>, in key order, at most limit of them.
KvList(store, index, owner, limit, now) ==
    LET ids == {k[3] : k \in {k \in DOMAIN store :
                          k[1] = index /\ k[2] = owner /\ KvLive(store, k, now)}}
    IN [i \in 1 .. Min(limit, Cardinality(ids)) |-> <<index, owner, Ascending(ids)[i]>>]

\* Array.prototype.sort with (a, b) => b.createdAt.localeCompare(a.createdAt):
\* a stable sort, latest first.
RECURSIVE sortByCreatedAt(_)
sortByCreatedAt(seq) ==
    IF seq = <<>> THEN <<>>
    ELSE LET first == CHOOSE i \in 1 .. Len(seq) :
                         /\ \A j \in 1 .. Len(seq) : seq[j].createdAt <= seq[i].createdAt
                         /\ \A j \in 1 .. i - 1 : seq[j].createdAt < seq[i].createdAt
         IN <<seq[first]>> \o
            sortByCreatedAt([j \in 1 .. Len(seq) - 1 |-> IF j < first THEN seq[j] ELSE seq[j + 1]])

\* The arguments of listContexts: type and status "" and limit None when
\* the option is not given.
ListOptionValues ==
    { [type |-> "", status |-> "", limit |-> None],
      [type |-> "session", status |-> "", limit |-> None],
      [type |-> "", status |-> "active", limit |-> 1],
      [type |-> "agent", status |-> "completed", limit |-> 2] }

QIdle == [pc |-> "idle", op |-> "none", chittyId |-> <<>>, type |-> "", status |-> "",
          limit |-> None, keys |-> <<>>, i |-> 0, id |-> None, acc |-> <<>>, res |-> <<>>]

QAtRest == req.pc \in {"idle", "done"}

\* ctx?.type === type && ctx.status === 'active'
activeMatchAnyStatus(data, type) == data # <<>> /\ data[1].type = type

activeMatch(data, type) == data # <<>> /\ data[1].type = type /\ data[1].status = "active"

\* ctx && ctx.chittyId === chittyId && (!options.status || ctx.status === options.status)
listMatch(data, chittyId, status) ==
    data # <<>> /\ data[1].chittyId = chittyId /\ (status = "" \/ data[1].status = status)

\* The end of the for loop: getActiveContext returns null, listContexts
\* returns the sorted array.
QReturn(q) ==
    IF q.op = "getActive" THEN [q EXCEPT !.pc = "done", !.res = <<>>]
    ELSE [q EXCEPT !.pc = "done", !.res = sortByCreatedAt(q.acc)]

\* The query q at its next key, or at its return when there is none.
QAdvance(q) ==
    IF q.i + 1 > Len(q.keys) THEN QReturn(q)
    ELSE [q EXCEPT !.pc = "get", !.i = q.i + 1]

InitQuery ==
    /\ heap = <<StoreActive, StoreDone, StoreOrphan, StoreRetyped, StoreLater>>
    /\ arrs = << <<>>, <<newOutcome(completeOutcome(StoreActive, TRUE), Uuid(4), 0)>>, <<>>,
                 <<>>, <<>> >>
    /\ made = <<[op |-> "create", from |-> 0, opts |-> NoOptions, arg |-> NoOutcome,
                 flag |-> FALSE, pre |-> NoCtx, preOut |-> <<>>],
                [op |-> "complete", from |-> 1, opts |-> NoOptions,
                 arg |-> completeOutcome(StoreActive, TRUE),
                 flag |-> TRUE, pre |-> StoreActive, preOut |-> <<>>],
                [op |-> "create", from |-> 0, opts |-> StoreOrphanOptions, arg |-> NoOutcome,
                 flag |-> FALSE, pre |-> NoCtx, preOut |-> <<>>],
                [op |-> "create", from |-> 0, opts |-> StoreRetypedOptions, arg |-> NoOutcome,
                 flag |-> FALSE, pre |-> NoCtx, preOut |-> <<>>],
                [op |-> "create", from |-> 0, opts |-> NoOptions, arg |-> NoOutcome,
                 flag |-> FALSE, pre |-> NoCtx, preOut |-> <<>>]>>
    /\ nextUuid = 13
    /\ clock = 0
    /\ cap = 5
    /\ kv = [k \in {} |-> None]
    /\ req = QIdle
    /\ got = <<>>
    /\ env \in [queue : {FALSE}]
    /\ run = [t \in Tasks |-> Idle]
    /\ settled = [i \in StoreIds |-> <<>>]
    /\ mw = None

\* getActiveContext(env, chittyId, type) up to its list resolving.
GetActiveContext(chittyId, type) ==
    /\ QAtRest
    /\ LET q == [QIdle EXCEPT !.op = "getActive", !.chittyId = chittyId, !.type = type,
                              !.keys = KvList(kv, "ctx:active", chittyId, ActiveScanLimit, clock)]
       IN req' = QAdvance(q)
    /\ UNCHANGED <<mw, heap, arrs, made, nextUuid, clock, cap, kv, got, env, run, settled>>

\* listContexts(env, chittyId, options) up to its list resolving.
ListContexts(chittyId, options) ==
    /\ QAtRest
    /\ LET limit == IF options.limit # None THEN options.limit ELSE DefaultListLimit
           q == [QIdle EXCEPT !.op = "list", !.chittyId = chittyId, !.type = options.type,
                              !.status = options.status, !.limit = options.limit,
                              !.keys = IF options.type # ""
                                       THEN KvList(kv, "ctx:type", options.type, limit, clock)
                                       ELSE KvList(kv, "ctx:chitty", chittyId, limit, clock)]
       IN req' = QAdvance(q)
    /\ UNCHANGED <<mw, heap, arrs, made, nextUuid, clock, cap, kv, got, env, run, settled>>

\* const contextId = await env.CHITTY_KV.get(key.name)
QueryGet ==
    /\ req.pc = "get"
    /\ LET contextId == KvGet(kv, req.keys[req.i], clock)
       IN req' = IF contextId = <<>> THEN QAdvance(req)
                 ELSE [req EXCEPT !.pc = "load", !.id = contextId[1]]
    /\ UNCHANGED <<mw, heap, arrs, made, nextUuid, clock, cap, kv, got, env, run, settled>>

\* const ctx = await loadContext(env, contextId), and the test on ctx.
QueryLoad ==
    /\ req.pc = "load"
    /\ LET ctx == loadContext(kv, req.id, clock)
       IN req' = IF req.op = "getActive"
                 THEN IF activeMatch(ctx, req.type)
                      THEN [req EXCEPT !.pc = "done", !.res = ctx]
                      ELSE QAdvance(req)
                 ELSE IF listMatch(ctx, req.chittyId, req.status)
                      THEN QAdvance([req EXCEPT !.acc = Append(req.acc, ctx[1])])
                      ELSE QAdvance(req)
    /\ UNCHANGED <<mw, heap, arrs, made, nextUuid, clock, cap, kv, got, env, run, settled>>

NextQuery ==
    \/ \E t \in Writers, h \in Handles : SavePrimary(t, h)
    \/ \E t \in Writers : SaveByChitty(t)
    \/ \E t \in Writers : SaveByType(t)
    \/ \E t \in Writers : SaveBySession(t)
    \/ \E t \in Writers : SaveActive(t)
    \/ \E c \in Principals, o \in ListOptionValues : ListContexts(c, o)
    \/ QueryGet
    \/ QueryLoad
    \/ Tick
    \/ QAtRest /\ Elapse

SpecQuery == InitQuery /\ [][NextQuery]_vars

(***************************************************************************)
(* getActiveContext against a task that saves (SpecActive).                *)
(***************************************************************************)
\* StoreLater, with its outcomes in the third array.
StoreSecond == [StoreLater EXCEPT !.outcomes = 3]

InitActive ==
    /\ heap = <<StoreActive, StoreDone, StoreSecond>>
    /\ arrs = << <<>>, <<newOutcome(completeOutcome(StoreActive, TRUE), Uuid(4), 0)>>, <<>> >>
    /\ made = <<[op |-> "create", from |-> 0, opts |-> NoOptions, arg |-> NoOutcome,
                 flag |-> FALSE, pre |-> NoCtx, preOut |-> <<>>],
                [op |-> "complete", from |-> 1, opts |-> NoOptions,
                 arg |-> completeOutcome(StoreActive, TRUE),
                 flag |-> TRUE, pre |-> StoreActive, preOut |-> <<>>],
                [op |-> "create", from |-> 0, opts |-> NoOptions, arg |-> NoOutcome,
                 flag |-> FALSE, pre |-> NoCtx, preOut |-> <<>>]>>
    /\ nextUuid = 13
    /\ clock = 0
    /\ cap = 3
    /\ kv = [k \in {} |-> None]
    /\ req = QIdle
    /\ got = <<>>
    /\ env \in [queue : {FALSE}]
    /\ run = [t \in Tasks |-> Idle]
    /\ settled = [i \in StoreIds |-> <<>>]
    /\ mw = None

NextActive ==
    \/ \E t \in Writers, h \in Handles : SavePrimary(t, h)
    \/ \E t \in Writers : SaveByChitty(t)
    \/ \E t \in Writers : SaveByType(t)
    \/ \E t \in Writers : SaveBySession(t)
    \/ \E t \in Writers : SaveActive(t)
    \/ \E c \in Principals, ty \in ContextTypes : GetActiveContext(c, ty)
    \/ QueryGet
    \/ QueryLoad
    \/ Tick
    \/ QAtRest /\ Elapse

SpecActive == InitActive /\ [][NextActive]_vars

\* C13: getActive(chittyId, type) returns either absence or a context
\* whose stored primary record has status active and whose type equals the
\* requested type: checked at the step at which the call returns.
C13_GetActiveReturnsActive ==
    [][(req'.op = "getActive" /\ req'.pc = "done" /\ req.pc # "done" /\ req'.res # <<>>) =>
          \E p \in PrimaryAt(kv', req'.res[1].id, clock') :
              /\ p = req'.res[1]
              /\ p.status = "active"
              /\ p.type = req'.type]_vars

\* getActive has returned absence after reading the marker of a context
\* whose primary record is no longer active.
C13_Witness ==
    /\ req.op = "getActive" /\ req.pc = "done" /\ req.res = <<>>
    /\ req.keys # <<>> /\ req.id = req.keys[1][3]
    /\ \E p \in StoredPrimary(req.id) : p.status = "completed" /\ p.type = req.type

\* getActive has returned the second context it loaded.
GetActiveSecondKey ==
    req.op = "getActive" /\ req.pc = "done" /\ req.res # <<>> /\ req.i = 2

\* A listContexts call has returned.
Listed == req.op = "list" /\ req.pc = "done"

ListBounded == Listed /\ req.limit # None => Len(req.res) <= req.limit

ListSorted ==
    Listed => \A i, j \in 1 .. Len(req.res) : i < j => req.res[i].createdAt >= req.res[j].createdAt

ListOfPrincipal ==
    Listed => \A i \in 1 .. Len(req.res) : req.res[i].chittyId = req.chittyId

ListOfStatus ==
    Listed /\ req.status # "" => \A i \in 1 .. Len(req.res) : req.res[i].status = req.status

ListOfType ==
    Listed /\ req.type # "" => \A i \in 1 .. Len(req.res) : req.res[i].type = req.type

\* C14: list(chittyId, {type?, status?, limit}) with limit >= 1 returns at
\* most limit contexts, sorted by createdAt descending, each of the
\* requested principal and, when given, of the requested type and status;
\* index entries whose primary record is absent are skipped.
C14_ListContexts ==
    /\ ListBounded
    /\ ListSorted
    /\ ListOfPrincipal
    /\ ListOfStatus
    /\ ListOfType

\* A list has returned two contexts, the later one first.
ListTwoSorted ==
    Listed /\ Len(req.res) = 2 /\ req.res[1].createdAt > req.res[2].createdAt

\* A list has returned after reading an index entry whose primary record
\* has expired.
ListSkippedAbsent ==
    /\ Listed /\ req.keys # <<>> /\ req.res = <<>>
    /\ \A i \in 1 .. Len(req.keys) : StoredPrimary(req.keys[i][3]) = {}
    /\ \E i \in 1 .. Len(req.keys) : KvLive(kv, req.keys[i], clock)

\* A list with a limit has left out a key of the index.
ListCutByLimit ==
    /\ Listed /\ req.limit # None /\ Len(req.res) = req.limit
    /\ Cardinality({k \in DOMAIN kv : k[1] = "ctx:chitty" /\ k[2] = req.chittyId}) > req.limit

(***************************************************************************)
(* The Hono middleware (SpecRequest): one request through                  *)
(* chittyContextMiddleware.  `req` is the request, `mw` the state of the   *)
(* middleware call: its options, where it is suspended, the downstream     *)
(* handler, the response, the promise it returned and its logAudit calls.  *)
(***************************************************************************)
PathHealth == <<"/", "h", "e", "a", "l", "t", "h">>
PathStatus == <<"/", "a", "p", "i", "/", "v", "1", "/", "s", "t", "a", "t", "u", "s">>
PathWellKnown == <<"/", ".", "w", "e", "l", "l", "-", "k", "n", "o", "w", "n">>

DEFAULT_OPTIONS ==
    [publicPaths |-> <<PathHealth, PathStatus, PathWellKnown>>,
     allowAnonymous |-> FALSE,
     systemChittyId |-> SYSTEM_CHITTY_ID,
     enableAuditLog |-> TRUE,
     contextType |-> "session"]

\* The options a service passes to chittyContextMiddleware.
MiddlewareOptionValues ==
    { NoOptions,
      Rec1("allowAnonymous", TRUE),
      Rec1("enableAuditLog", FALSE),
      Rec1("contextType", "agent"),
      Rec2("allowAnonymous", TRUE, "contextType", "agent") }

\* new URL(c.req.url).pathname of the requests.
PathValues ==
    { PathHealth, PathHealth \o <<"z">>, SubSeq(PathHealth, 1, 5), SubSeq(PathStatus, 1, 4) }

\* The raw body: none, a JSON object, or text that is not JSON.
RawBodyValues ==
    { [kind |-> "undefined", chittyId |-> Null],
      [kind |-> "object", chittyId |-> Str(IdDev)],
      [kind |-> "malformed", chittyId |-> Null] }

RequestValues ==
    [path : PathValues,
     method : {"GET", "POST"},
     header : {Null, Str(IdUser), Str(IdOneDigit)},
     auth : {Null, Str(Bearer \o IdSvc)},
     json : BOOLEAN,
     body : RawBodyValues,
     session : {None}]

\* The statuses of the downstream response and the values a handler throws.
StatusValues == {200, 404, 500}
ErrorBoom == [kind |-> "Error", message |-> "boom"]
ThrownNull == [kind |-> "null", message |-> ""]
ThrownValues == {ErrorBoom, ThrownNull}
TypeError == [kind |-> "TypeError", message |-> "Cannot read properties of null"]
NoError == [kind |-> "none", message |-> ""]

\* opts.publicPaths?.some(p => path.startsWith(p))
isPublic(opts, path) ==
    \E i \in 1 .. Len(opts.publicPaths) : StartsWith(path, opts.publicPaths[i])

\* The body the middleware hands to extractChittyId: clone.json() is called
\* only for a JSON content type, and its rejection is swallowed.
parsedBody(r) ==
    IF r.json /\ r.body.kind = "object" THEN r.body
    ELSE [kind |-> "undefined", chittyId |-> Null]

\* createFromRequest(chittyId, request, type): u1 is the uuid of the
\* session fallback, u2 of the requestId, u3 of the id.
createFromRequest(chittyId, r, type, u1, u2, u3, now, arr) ==
    createContext(chittyId, type,
                  [k \in {"sessionId", "requestId", "source"} |->
                      IF k = "sessionId" THEN (IF r.session # None THEN r.session ELSE u1)
                      ELSE IF k = "requestId" THEN u2
                      ELSE "api"],
                  u3, u3, u3, now, arr)

\* createAuditEvent(ctx, eventType, action, resource, details)
createAuditEvent(ctx, eventType, action, resource, details, uid, now) ==
    [id |-> uid,
     contextId |-> ctx.id,
     chittyId |-> ctx.chittyId,
     timestamp |-> now,
     eventType |-> eventType,
     action |-> action,
     resource |-> resource,
     status |-> "success",
     details |-> details]

AuditKey(event) == <<"audit", event.contextId, event.id>>

NoHeaders == [k \in {} |-> None]
NoResponse == [status |-> None, code |-> "", headers |-> NoHeaders]
Pending == [kind |-> "pending", err |-> NoError]
Resolved == [kind |-> "resolved", err |-> NoError]
Rejected(err) == [kind |-> "rejected", err |-> err]

\* c.json({ error, message, code: 'CHITTY_ID_REQUIRED' }, 401)
IdentityRequired == [status |-> 401, code |-> "CHITTY_ID_REQUIRED", headers |-> NoHeaders]

MwIdle(options) ==
    [opts |-> Spread(DEFAULT_OPTIONS, options), pc |-> "idle", h |-> 0, id |-> Null,
     calls |-> 0, handler |-> "none", thrown |-> NoError, res |-> NoResponse,
     outcome |-> Pending, audits |-> <<>>]

InitRequest ==
    /\ heap = <<>>
    /\ arrs = <<>>
    /\ made = <<>>
    /\ nextUuid = 0
    /\ clock = 0
    /\ cap = 1
    /\ kv = [k \in {} |-> None]
    /\ req = None
    /\ got = <<>>
    /\ env \in [kv : BOOLEAN, queue : BOOLEAN]
    /\ run = None
    /\ settled = None
    /\ mw \in {MwIdle(o) : o \in MiddlewareOptionValues}

\* The type of the context attached: 'system' on a public path, else
\* opts.contextType.
attachedTypeConfigured(opts, public) == opts.contextType

attachedType(opts, public) == IF public THEN "system" ELSE opts.contextType

\* c.set('chittyContext', createFromRequest(chittyId, c.req.raw, type))
Attach(chittyId, r, type) ==
    /\ heap' = Append(heap, createFromRequest(chittyId, r, type, Uuid(nextUuid + 1),
                                             Uuid(nextUuid + 2), Uuid(nextUuid + 3),
                                             clock, Len(arrs) + 1))
    /\ arrs' = Append(arrs, <<>>)
    /\ made' = Append(made, Made("create", 0, NoOptions, NoOutcome, FALSE))
    /\ nextUuid' = nextUuid + 3

\* The middleware from the arrival of request r to its first suspension on
\* next(), or to its 401 response.
Middleware(r) ==
    /\ mw.pc = "idle"
    /\ req' = r
    /\ LET chittyId == extractChittyId(r.header, r.auth, parsedBody(r))
           calling == [mw EXCEPT !.h = Len(heap) + 1, !.calls = mw.calls + 1,
                                 !.handler = "running"]
       IN IF isPublic(mw.opts, r.path)
          THEN /\ Attach(mw.opts.systemChittyId, r, attachedType(mw.opts, TRUE))
               /\ mw' = [calling EXCEPT !.pc = "tail"]
          ELSE IF Falsy(chittyId)
          THEN IF mw.opts.allowAnonymous
               THEN /\ Attach(mw.opts.systemChittyId, r, attachedType(mw.opts, FALSE))
                    /\ mw' = [calling EXCEPT !.pc = "next"]
               ELSE /\ mw' = [mw EXCEPT !.pc = "done", !.res = IdentityRequired,
                                        !.outcome = Resolved]
                    /\ UNCHANGED <<heap, arrs, made, nextUuid>>
          ELSE /\ Attach(chittyId.s, r, attachedType(mw.opts, FALSE))
               /\ mw' = [calling EXCEPT !.pc = "next", !.id = chittyId]
    /\ UNCHANGED <<clock, cap, kv, got, env, run, settled>>

\* The downstream handler produces a response.
HandlerReturns(status) ==
    /\ mw.handler = "running"
    /\ mw' = [mw EXCEPT !.handler = "returned", !.res = [NoResponse EXCEPT !.status = status]]
    /\ UNCHANGED <<heap, arrs, made, nextUuid, clock, cap, kv, req, got, env, run, settled>>

\* The downstream handler throws, and next() rejects.
HandlerThrows(err) ==
    /\ mw.handler = "running"
    /\ mw' = [mw EXCEPT !.handler = "threw", !.thrown = err]
    /\ UNCHANGED <<heap, arrs, made, nextUuid, clock, cap, kv, req, got, env, run, settled>>

\* return next(): the promise of the middleware settles as next() does.
TailSettles ==
    /\ mw.pc = "tail"
    /\ mw.handler \in {"returned", "threw"}
    /\ mw' = [mw EXCEPT !.pc = "done",
                         !.outcome = IF mw.handler = "threw" THEN Rejected(mw.thrown)
                                     ELSE Resolved]
    /\ UNCHANGED <<heap, arrs, made, nextUuid, clock, cap, kv, req, got, env, run, settled>>

\* opts.enableAuditLog && c.env?.CHITTY_KV
Auditing == mw.opts.enableAuditLog /\ env.kv

\* logAudit(c.env, event) up to its first await: the call is not awaited.
StartLogAudit(event) == Append(mw.audits, [event |-> event, pc |-> "put"])

\* c.header('X-Request-ID', ...), c.header('X-Chitty-ID', ...), c.header('X-Context-ID', ...)
SetHeaders(res, ctx) ==
    [res EXCEPT !.headers =
        [k \in {"X-Request-ID", "X-Chitty-ID", "X-Context-ID"} |->
            IF k = "X-Request-ID" THEN <<ctx.requestId>>
            ELSE IF k = "X-Chitty-ID" THEN ctx.chittyId
            ELSE <<ctx.id>>]]

\* await next() has resolved: the audit event, then the response headers.
AfterNext ==
    /\ mw.pc = "next"
    /\ mw.handler = "returned"
    /\ LET ctx == heap[mw.h]
           event == createAuditEvent(ctx, "api.request", req.method, req.path,
                        [status |-> IF mw.res.status >= 400 THEN "error" ELSE "success",
                         errorMessage |-> ""],
                        Uuid(nextUuid + 1), clock)
       IN /\ mw' = [mw EXCEPT !.pc = "done",
                              !.audits = IF Auditing THEN StartLogAudit(event) ELSE mw.audits,
                              !.res = SetHeaders(mw.res, ctx),
                              !.outcome = Resolved]
          /\ nextUuid' = IF Auditing THEN nextUuid + 1 ELSE nextUuid
    /\ UNCHANGED <<heap, arrs, made, clock, cap, kv, req, got, env, run, settled>>

\* await next() has rejected with err: the audit event, then throw err.
\* Reading err.message of null or undefined throws a TypeError instead.
CatchNext ==
    /\ mw.pc = "next"
    /\ mw.handler = "threw"
    /\ LET ctx == heap[mw.h]
           event == createAuditEvent(ctx, "api.request", req.method, req.path,
                        [status |-> "error", errorMessage |-> mw.thrown.message],
                        Uuid(nextUuid + 1), clock)
       IN IF Auditing /\ mw.thrown.kind = "null"
          THEN /\ mw' = [mw EXCEPT !.pc = "done", !.outcome = Rejected(TypeError)]
               /\ UNCHANGED nextUuid
          ELSE /\ mw' = [mw EXCEPT !.pc = "done",
                                   !.audits = IF Auditing THEN StartLogAudit(event)
                                              ELSE mw.audits,
                                   !.outcome = Rejected(mw.thrown)]
               /\ nextUuid' = IF Auditing THEN nextUuid + 1 ELSE nextUuid
    /\ UNCHANGED <<heap, arrs, made, clock, cap, kv, req, got, env, run, settled>>

\* await env.CHITTY_KV.put(`audit:${event.contextId}:${event.id}`, ...) resolves.
LogAuditPut(i) ==
    /\ i \in 1 .. Len(mw.audits)
    /\ mw.audits[i].pc = "put"
    /\ kv' = KvPut(kv, AuditKey(mw.audits[i].event), mw.audits[i].event, Ttl30Days, clock)
    /\ mw' = [mw EXCEPT !.audits[i].pc = IF env.queue THEN "notify" ELSE "resolved"]
    /\ UNCHANGED <<heap, arrs, made, nextUuid, clock, cap, req, got, env, run, settled>>

\* await env.CHITTY_TASKS.send({ type: 'audit.event', event }) resolves.
LogAuditNotify(i) ==
    /\ i \in 1 .. Len(mw.audits)
    /\ mw.audits[i].pc = "notify"
    /\ mw' = [mw EXCEPT !.audits[i].pc = "resolved"]
    /\ UNCHANGED <<heap, arrs, made, nextUuid, clock, cap, kv, req, got, env, run, settled>>

\* The put or the send rejects: logAudit rejects, and the middleware's
\* .catch(console.error) logs it.
LogAuditThrows(i) ==
    /\ i \in 1 .. Len(mw.audits)
    /\ mw.audits[i].pc \in {"put", "notify"}
    /\ mw' = [mw EXCEPT !.audits[i].pc = IF mw.audits[i].pc = "put" THEN "rejectedByPut"
                                         ELSE "rejectedBySend"]
    /\ UNCHANGED <<heap, arrs, made, nextUuid, clock, cap, kv, req, got, env, run, settled>>

NextRequest ==
    \/ \E r \in RequestValues : Middleware(r)
    \/ \E status \in StatusValues : HandlerReturns(status)
    \/ \E err \in ThrownValues : HandlerThrows(err)
    \/ TailSettles
    \/ AfterNext
    \/ CatchNext
    \/ \E i \in DOMAIN mw.audits : LogAuditPut(i)
    \/ \E i \in DOMAIN mw.audits : LogAuditNotify(i)
    \/ \E i \in DOMAIN mw.audits : LogAuditThrows(i)

SpecRequest == InitRequest /\ [][NextRequest]_vars

\* The request has a public path; an identity can be extracted from it.
PublicPath == \E i \in 1 .. Len(mw.opts.publicPaths) : StartsWith(req.path, mw.opts.publicPaths[i])
Identified == mw.id.kind = "string"
Invoked == mw.calls > 0

\* C15: the middleware invokes the downstream handler if and only if the
\* path matches a public prefix, or an identity was extracted, or anonymous
\* access is allowed.  When invoked, the attached context is (system
\* identity, type system) for a public path, (system identity, configured
\* type) for anonymous traffic and (extracted identity, configured type)
\* otherwise.  When not invoked, the response is a 401 error and the
\* handler is never called.
C15_HandlerInvokedIff ==
    mw.pc # "idle" =>
        /\ mw.calls <= 1
        /\ Invoked <=> (PublicPath \/ Identified \/ mw.opts.allowAnonymous)
        /\ (Invoked /\ PublicPath) =>
               heap[mw.h].chittyId = SYSTEM_CHITTY_ID /\ heap[mw.h].type = "system"
        /\ (Invoked /\ ~PublicPath /\ ~Identified) =>
               heap[mw.h].chittyId = SYSTEM_CHITTY_ID /\ heap[mw.h].type = mw.opts.contextType
        /\ (Invoked /\ ~PublicPath /\ Identified) =>
               heap[mw.h].chittyId = mw.id.s /\ heap[mw.h].type = mw.opts.contextType
        /\ ~Invoked =>
               /\ mw.res.status = 401 /\ mw.res.code = "CHITTY_ID_REQUIRED"
               /\ mw.handler = "none" /\ mw.h = 0 /\ mw.outcome = Resolved

\* A request with an identity in its header on a public path under a
\* configured type other than system has gone through, ...
C15_Witness ==
    /\ mw.pc = "done" /\ Invoked /\ PublicPath /\ mw.handler = "returned"
    /\ req.header = Str(IdUser) /\ mw.opts.contextType = "agent"

\* ... an anonymous request has gone through, one with an identity in its
\* body only has, and one has been answered 401.
AnonymousServed ==
    mw.pc = "done" /\ Invoked /\ ~PublicPath /\ ~Identified /\ mw.handler = "returned"

IdentifiedByBody ==
    mw.pc = "done" /\ Invoked /\ ~PublicPath /\ mw.id = Str(IdDev)

Rejected401 == mw.pc = "done" /\ ~Invoked /\ req.body.kind = "object" /\ ~req.json

\* The downstream outcome counts as a failure.
Failure == mw.handler = "threw" \/ (mw.handler = "returned" /\ mw.res.status >= 400)

\* C16: the audit event written by the middleware has its status field
\* equal to error when the downstream response status is >= 400 or the
\* handler raised, and to success otherwise; its action is the request
\* method and its resource is the path.
C16_AuditEventStatus ==
    \A i \in DOMAIN mw.audits :
        /\ mw.audits[i].event.status = IF Failure THEN "error" ELSE "success"
        /\ mw.audits[i].event.action = req.method
        /\ mw.audits[i].event.resource = req.path

\* What does hold: the action, the resource, and the status kept in the
\* event's details.
AuditEventDetails ==
    \A i \in DOMAIN mw.audits :
        /\ mw.audits[i].event.details.status = IF Failure THEN "error" ELSE "success"
        /\ mw.audits[i].event.action = req.method
        /\ mw.audits[i].event.resource = req.path
        /\ mw.audits[i].event.contextId = heap[mw.h].id

AuditedFailure == mw.audits # <<>> /\ Failure

\* C17: the outcome a caller observes from the middleware equals the
\* downstream handler's outcome regardless of audit logging: a raised
\* exception is re-raised unchanged, a completed handler gives a completed
\* request, and a failed audit write changes neither.
C17_OutcomeIsHandlers ==
    (mw.pc = "done" /\ Invoked) =>
        /\ mw.handler = "returned" => mw.outcome = Resolved
        /\ mw.handler = "threw" => mw.outcome = Rejected(mw.thrown)

\* The same for every handler that returns or throws an Error object.
OutcomeIsHandlersForErrors ==
    (mw.pc = "done" /\ Invoked /\ mw.thrown.kind # "null") =>
        /\ mw.handler = "returned" => mw.outcome = Resolved
        /\ mw.handler = "threw" => mw.outcome = Rejected(mw.thrown)

\* A request has completed although its audit write was rejected.
CompletedDespiteAuditFailure ==
    /\ mw.pc = "done" /\ mw.outcome = Resolved
    /\ \E i \in DOMAIN mw.audits : mw.audits[i].pc = "rejectedByPut"

\* The correlation headers of the attached context are on the response.
HeadersSet ==
    /\ DOMAIN mw.res.headers = {"X-Request-ID", "X-Chitty-ID", "X-Context-ID"}
    /\ mw.res.headers["X-Request-ID"] = <<heap[mw.h].requestId>>
    /\ mw.res.headers["X-Chitty-ID"] = heap[mw.h].chittyId
    /\ mw.res.headers["X-Context-ID"] = <<heap[mw.h].id>>

\* C18: on every completion path of a request for which the middleware
\* attached a context (public path, normal completion of the handler,
\* handler exception), the response carries the request-id, principal and
\* context-id headers taken from the attached context.
C18_HeadersOnEveryPath ==
    (mw.pc = "done" /\ mw.h # 0) => HeadersSet

\* What does hold: the headers are set when the handler of a request that
\* is not on a public path completes normally.
HeadersOnNormalCompletion ==
    (mw.pc = "done" /\ mw.h # 0 /\ ~PublicPath /\ mw.handler = "returned") => HeadersSet

HeadersReached == mw.pc = "done" /\ mw.h # 0 /\ HeadersSet

\* The audit records in the store.
AuditRecords == {k \in DOMAIN kv : k[1] = "audit"}

\* Every logAudit call of the request has settled, none rejected.
AuditSettled ==
    mw.pc = "done" /\ \A i \in DOMAIN mw.audits : mw.audits[i].pc = "resolved"

\* C19: with audit logging enabled and a store configured, for every
\* request for which the downstream handler is invoked (public paths
\* included) exactly one audit record is written, and only after the
\* handler has finished; none is written before and none twice.
C19_OneAuditPerRequest ==
    /\ AuditRecords # {} => mw.handler \in {"returned", "threw"}
    /\ Cardinality(AuditRecords) <= 1
    /\ Len(mw.audits) <= 1
    /\ (Auditing /\ Invoked /\ AuditSettled) => Cardinality(AuditRecords) = 1

\* What does hold: the same for requests that are not on a public path and
\* whose handler does not throw null.
OneAuditOffPublicPaths ==
    /\ AuditRecords # {} => mw.handler \in {"returned", "threw"}
    /\ Cardinality(AuditRecords) <= 1
    /\ Len(mw.audits) <= 1
    /\ (Auditing /\ Invoked /\ AuditSettled /\ ~PublicPath /\ mw.thrown.kind # "null") =>
           Cardinality(AuditRecords) = 1

AuditWritten == AuditSettled /\ Cardinality(AuditRecords) = 1

\* logAudit is not rejected by a failed enqueue.
LogAuditEnqueueTolerated ==
    \A i \in DOMAIN mw.audits : mw.audits[i].pc # "rejectedBySend"

(***************************************************************************)
(* rateLimitByChittyId (SpecRate): requests of two principals, processed   *)
(* one after another.  Time is counted in seconds.  `mw` holds the options *)
(* of the limiter, the request in flight and, for each principal, what     *)
(* its requests of the current window have been answered.                  *)
(***************************************************************************)
\* String(n) and parseInt(s, 10), on decimal digits.
DigitChars == <<"0", "1", "2", "3", "4", "5", "6", "7", "8", "9">>

RECURSIVE String(_)
String(n) ==
    IF n < 10 THEN <<DigitChars[n + 1]>>
    ELSE String(n \div 10) \o <<DigitChars[(n % 10) + 1]>>

DigitValue(c) == (CHOOSE i \in 1 .. 10 : DigitChars[i] = c) - 1

RECURSIVE parseDigits(_, _)
parseDigits(s, acc) ==
    IF s = <<>> \/ Head(s) \notin Digits THEN acc
    ELSE parseDigits(Tail(s), 10 * acc + DigitValue(Head(s)))

parseInt(s) == parseDigits(s, 0)

\* The options of the limiter: maxRequests and windowSeconds.
RateOptionValues ==
    { [maxRequests |-> 1, windowSeconds |-> 2],
      [maxRequests |-> 3, windowSeconds |-> 2],
      [maxRequests |-> 11, windowSeconds |-> 3] }

\* One counter for all principals, and the counter of each: `ratelimit:${ctx.chittyId}`.
RateKeyShared(chittyId) == <<"ratelimit", <<>>>>

RateKey(chittyId) == <<"ratelimit", chittyId>>

\* c.json({ error, code: 'RATE_LIMIT_EXCEEDED', retryAfter: options.windowSeconds }, 429)
RateLimitExceeded(options) ==
    [status |-> 429, code |-> "RATE_LIMIT_EXCEEDED", retryAfter |-> options.windowSeconds]

\* The request went on to the next handler.
PassedOn == [status |-> None, code |-> "", retryAfter |-> None]

\* What is known of a principal's requests since its counter was last
\* absent: when the first arrived, how many have been answered, how many
\* went on to next(), the last answer, and whether all of them arrived
\* within windowSeconds of the first; and when the first of them was
\* counted by a put.
NoWindow == [since |-> 0, hits |-> 0, passed |-> 0, last |-> PassedOn, within |-> TRUE,
             opened |-> 0]

InitRate ==
    /\ heap = <<>>
    /\ arrs = <<>>
    /\ made = <<>>
    /\ nextUuid = 0
    /\ clock = 0
    /\ cap = 0
    /\ kv = [k \in {} |-> None]
    /\ req = None
    /\ got = <<>>
    /\ env \in [kv : BOOLEAN]
    /\ run = None
    /\ settled = None
    /\ mw \in {[opts |-> o, pc |-> "idle", who |-> <<>>, count |-> 0, total |-> 0,
                 seen |-> [p \in Principals |-> NoWindow]] : o \in RateOptionValues}

\* The window record of principal p for a request arriving now.
Arrive(p) ==
    LET w == IF KvLive(kv, RateKey(p), clock) THEN mw.seen[p]
             ELSE [NoWindow EXCEPT !.since = clock]
    IN [w EXCEPT !.within = w.within /\ clock < w.since + mw.opts.windowSeconds]

\* The middleware for a request of principal p, up to its put: without a
\* store it calls next(); with the count reached it answers 429.
RateLimit(p) ==
    /\ mw.pc = "idle"
    /\ mw.total < MaxHits
    /\ LET current == KvGet(kv, RateKey(p), clock)
           count == IF current # <<>> THEN parseInt(current[1]) ELSE 0
           w == Arrive(p)
       IN mw' = IF ~env.kv
                THEN [mw EXCEPT !.total = mw.total + 1,
                                !.seen[p] = [w EXCEPT !.hits = w.hits + 1,
                                                      !.passed = w.passed + 1,
                                                      !.last = PassedOn]]
                ELSE IF count >= mw.opts.maxRequests
                THEN [mw EXCEPT !.total = mw.total + 1,
                                !.seen[p] = [w EXCEPT !.hits = w.hits + 1,
                                                      !.last = RateLimitExceeded(mw.opts)]]
                ELSE [mw EXCEPT !.total = mw.total + 1, !.pc = "put", !.who = p,
                                !.count = count, !.seen[p] = w]
    /\ UNCHANGED <<heap, arrs, made, nextUuid, clock, cap, kv, req, got, env, run, settled>>

\* await c.env.CHITTY_KV.put(key, String(count + 1), { expirationTtl }) has
\* resolved, and next() is called.
RatePut ==
    /\ mw.pc = "put"
    /\ kv' = KvPut(kv, RateKey(mw.who), String(mw.count + 1), mw.opts.windowSeconds, clock)
    /\ mw' = [mw EXCEPT !.pc = "idle", !.who = <<>>, !.count = 0,
                         !.seen[mw.who] = [mw.seen[mw.who] EXCEPT !.hits = @ + 1,
                                                                  !.passed = @ + 1,
                                                                  !.last = PassedOn,
                                                                  !.opened =
                                                                      IF mw.seen[mw.who].passed = 0
                                                                      THEN clock ELSE @]]
    /\ UNCHANGED <<heap, arrs, made, nextUuid, clock, cap, req, got, env, run, settled>>

\* A second passes.
RateTick ==
    /\ clock < MaxSeconds
    /\ clock' = clock + 1
    /\ kv' = KvAt(kv, clock + 1)
    /\ UNCHANGED <<mw, heap, arrs, made, nextUuid, cap, req, got, env, run, settled>>

NextRate ==
    \/ \E p \in Principals : RateLimit(p)
    \/ RatePut
    \/ RateTick

SpecRate == InitRate /\ [][NextRate]_vars

\* C20: with the limiter configured for maxRequests = N per window of W
\* seconds and a store bound, of the requests of one principal processed
\* one after another within a window that starts from an absent counter,
\* the first N go on to the next handler and every further one is answered
\* 429 with code RATE_LIMIT_EXCEEDED and retryAfter = W without the next
\* handler being invoked; the counters of different principals are
\* independent.
C20_RateLimit ==
    \A p \in Principals :
        LET w == mw.seen[p] IN
        (env.kv /\ w.within) =>
            /\ w.passed = Min(w.hits, mw.opts.maxRequests)
            /\ w.hits > mw.opts.maxRequests =>
                   w.last = [status |-> 429, code |-> "RATE_LIMIT_EXCEEDED",
                             retryAfter |-> mw.opts.windowSeconds]
            /\ (w.hits > 0 /\ w.hits <= mw.opts.maxRequests) => w.last = PassedOn

\* The twelfth request of a principal limited to eleven has been rejected
\* within the window, ...
C20_Witness ==
    \E p \in Principals :
        /\ env.kv /\ mw.seen[p].within /\ mw.opts.maxRequests = 11
        /\ mw.seen[p].hits = 12 /\ mw.seen[p].passed = 11 /\ mw.seen[p].last.status = 429

\* ... and one principal has been rejected while the other still passes.
RateIndependent ==
    /\ env.kv /\ mw.opts.maxRequests = 3
    /\ mw.seen[IdUser].within /\ mw.seen[IdUser].hits = 4 /\ mw.seen[IdUser].last.status = 429
    /\ mw.seen[IdSvc].within /\ mw.seen[IdSvc].hits = 2 /\ mw.seen[IdSvc].passed = 2
    /\ mw.seen[IdSvc].since > mw.seen[IdUser].since

\* C22: the window of the rate limiter is fixed: the counter of a principal
\* expires windowSeconds after the first counted request of the window,
\* whatever requests follow, so that a principal is admitted again as soon
\* as windowSeconds have passed since the first of its counted requests.
C22_FixedWindow ==
    \A p \in Principals :
        LET w == mw.seen[p] IN
        (env.kv /\ w.passed > 0 /\ KvLive(kv, RateKey(p), clock)) =>
            /\ kv[RateKey(p)].exp = w.opened + mw.opts.windowSeconds
            /\ clock < w.opened + mw.opts.windowSeconds

\* What does hold: the counter expires windowSeconds after the last counted
\* request, each put renewing the TTL.
SlidingWindow ==
    \A p \in Principals :
        (env.kv /\ KvLive(kv, RateKey(p), clock)) =>
            /\ kv[RateKey(p)].exp <= clock + mw.opts.windowSeconds
            /\ kv[RateKey(p)].exp >= mw.seen[p].opened + mw.opts.windowSeconds

(***************************************************************************)
(* Conversation messages (SpecMessages): storeMessage by two request       *)
(* tasks, one step per await, and getMessages, whose state is in `req`.    *)
(* `got` lists the messages storeMessage has returned, in the order of     *)
(* return.                                                                 *)
(***************************************************************************)
TtlMessage == 90

\* The conversation contexts the tasks hold: ctx.id, ctx.chittyId and
\* ctx.conversationId.
ConversationValues ==
    { [id |-> 31, chittyId |-> IdUser, conversationId |-> 21],
      [id |-> 32, chittyId |-> IdSvc, conversationId |-> 22] }

ConversationIds == {c.conversationId : c \in ConversationValues}

\* The messages handed to storeMessage: provider None when it is undefined.
MessageValues ==
    { [role |-> "user", content |-> "hi", provider |-> None],
      [role |-> "assistant", content |-> "hello", provider |-> 7] }

MessageKeys == {"id", "contextId", "chittyId", "conversationId", "timestamp",
                "role", "content", "provider"}

\* The limits handed to getMessages: None when the argument is left out.
LimitValues == {None, 1, 2}
DefaultMessageLimit == 50

MessageKey(conversationId, id) == <<"msg", conversationId, id>>

\* `msg:${conversationId}:index`
MessageIndexKey(conversationId) == <<"msg:index", conversationId>>

\* { id, contextId, chittyId, conversationId, timestamp, ...message }
stampMessage(ctx, message, uid, now) ==
    [id |-> uid,
     contextId |-> ctx.id,
     chittyId |-> ctx.chittyId,
     conversationId |-> ctx.conversationId,
     timestamp |-> now,
     role |-> message.role,
     content |-> message.content,
     provider |-> message.provider]

\* JSON.stringify(stored) leaves out an undefined provider; JSON.parse gives
\* it back as undefined.
stringifyMessage(msg) ==
    [k \in {k \in DOMAIN msg : ~(k = "provider" /\ msg[k] = None)} |-> msg[k]]

parseMessage(json) == [k \in MessageKeys |-> IF k \in DOMAIN json THEN json[k] ELSE None]

\* ids.slice(-limit): the last limit elements, and all of them for -0.
sliceFirst(ids, limit) == SubSeq(ids, 1, Min(limit, Len(ids)))

sliceLast(ids, limit) ==
    IF limit = 0 THEN ids
    ELSE SubSeq(ids, Max(Len(ids) - limit, 0) + 1, Len(ids))

StoreIdle == [pc |-> "idle", ctx |-> [id |-> None, chittyId |-> <<>>, conversationId |-> None],
              stored |-> <<>>, ids |-> <<>>]

MIdle == [pc |-> "idle", conversationId |-> None, limit |-> None, ids |-> <<>>, i |-> 0,
          res |-> <<>>, want |-> <<>>, known |-> {}, sequential |-> TRUE]

InitMessages ==
    /\ heap = <<>>
    /\ arrs = <<>>
    /\ made = <<>>
    /\ nextUuid = 0
    /\ clock = 0
    /\ cap = 0
    /\ kv = [k \in {} |-> None]
    /\ req = MIdle
    /\ got = <<>>
    /\ env = None
    /\ run = [t \in Tasks |-> StoreIdle]
    /\ settled = [c \in ConversationIds |-> TRUE]
    /\ mw = None

\* The messages of a conversation that storeMessage has returned.
RECURSIVE Returned(_, _)
Returned(log, conversationId) ==
    IF log = <<>> THEN <<>>
    ELSE (IF Head(log).conversationId = conversationId THEN <<Head(log)>> ELSE <<>>)
         \o Returned(Tail(log), conversationId)

\* storeMessage(env, ctx, message) up to its first put taking effect.
\* `settled` keeps, for each conversation, whether its storeMessage calls
\* have all run one after another.
StoreMessage(t, ctx, message) ==
    /\ run[t].pc = "idle"
    /\ nextUuid < MaxMsgs
    /\ LET stored == stampMessage(ctx, message, Uuid(nextUuid + 1), clock)
       IN /\ kv' = KvPut(kv, MessageKey(ctx.conversationId, stored.id),
                         stringifyMessage(stored), TtlMessage, clock)
          /\ run' = [run EXCEPT ![t] = [StoreIdle EXCEPT !.pc = "getIndex", !.ctx = ctx,
                                                         !.stored = <<stored>>]]
    /\ nextUuid' = nextUuid + 1
    /\ settled' = [settled EXCEPT ![ctx.conversationId] =
                      @ /\ \A u \in Tasks \ {t} :
                              run[u].pc = "idle" \/ run[u].ctx.conversationId # ctx.conversationId]
    /\ UNCHANGED <<mw, heap, arrs, made, clock, cap, req, got, env>>

\* const existing = await env.CHITTY_KV.get(indexKey); ids.push(stored.id)
StoreGetIndex(t) ==
    /\ run[t].pc = "getIndex"
    /\ LET existing == KvGet(kv, MessageIndexKey(run[t].ctx.conversationId), clock)
           ids == IF existing # <<>> THEN existing[1] ELSE <<>>
       IN run' = [run EXCEPT ![t].pc = "putIndex", ![t].ids = Append(ids, run[t].stored[1].id)]
    /\ UNCHANGED <<mw, heap, arrs, made, nextUuid, clock, cap, kv, req, got, env, settled>>

\* await env.CHITTY_KV.put(indexKey, JSON.stringify(ids), ...); return stored
StorePutIndex(t) ==
    /\ run[t].pc = "putIndex"
    /\ kv' = KvPut(kv, MessageIndexKey(run[t].ctx.conversationId), run[t].ids, TtlMessage, clock)
    /\ got' = Append(got, run[t].stored[1])
    /\ run' = [run EXCEPT ![t] = StoreIdle]
    /\ UNCHANGED <<mw, heap, arrs, made, nextUuid, clock, cap, req, env, settled>>

\* The query at its next id, or at its return.
MAdvance(q) ==
    IF q.i + 1 > Len(q.ids) THEN [q EXCEPT !.pc = "done"]
    ELSE [q EXCEPT !.pc = "get", !.i = q.i + 1]

\* getMessages(env, conversationId, limit) up to its read of the index.
\* `want` and `known` keep what storeMessage had returned by then.
GetMessages(conversationId, limit) ==
    /\ req.pc \in {"idle", "done"}
    /\ LET n == IF limit # None THEN limit ELSE DefaultMessageLimit
           existing == KvGet(kv, MessageIndexKey(conversationId), clock)
           returned == Returned(got, conversationId)
           q == [MIdle EXCEPT !.conversationId = conversationId, !.limit = n,
                              !.want = returned,
                              !.known = {returned[i].id : i \in 1 .. Len(returned)},
                              !.sequential = settled[conversationId]]
       IN req' = IF existing = <<>> THEN [q EXCEPT !.pc = "done"]
                 ELSE MAdvance([q EXCEPT !.ids = sliceLast(existing[1], n)])
    /\ UNCHANGED <<mw, heap, arrs, made, nextUuid, clock, cap, kv, got, env, run, settled>>

\* const msg = await env.CHITTY_KV.get(`msg:${conversationId}:${id}`)
GetMessage ==
    /\ req.pc = "get"
    /\ LET msg == KvGet(kv, MessageKey(req.conversationId, req.ids[req.i]), clock)
       IN req' = IF msg # <<>>
                 THEN MAdvance([req EXCEPT !.res = Append(req.res, parseMessage(msg[1]))])
                 ELSE MAdvance(req)
    /\ UNCHANGED <<mw, heap, arrs, made, nextUuid, clock, cap, kv, got, env, run, settled>>

NextMessages ==
    \/ \E t \in Tasks, ctx \in ConversationValues, m \in MessageValues : StoreMessage(t, ctx, m)
    \/ \E t \in Tasks : StoreGetIndex(t)
    \/ \E t \in Tasks : StorePutIndex(t)
    \/ \E c \in ConversationIds, limit \in LimitValues : GetMessages(c, limit)
    \/ GetMessage

SpecMessages == InitMessages /\ [][NextMessages]_vars

\* C21: for a conversation whose messages were stored by sequential
\* storeMessage calls, getMessages(conversationId, limit) with limit >= 1
\* returns exactly the last min(limit, n) stored messages of that
\* conversation, in insertion order, and never a message of another
\* conversation.
C21_GetMessagesLastInOrder ==
    (req.pc = "done" /\ req.sequential) =>
        LET n == Len(req.want)
            k == Min(req.limit, n)
        IN /\ Len(req.res) = k
           /\ \A i \in 1 .. k : req.res[i] = req.want[n - k + i]
           /\ \A i \in 1 .. k : req.res[i].conversationId = req.conversationId

\* Two of three stored messages have been returned, the defined provider of
\* one of them included.
C21_Witness ==
    /\ req.pc = "done" /\ req.sequential /\ req.limit = 2
    /\ Len(Returned(got, req.conversationId)) = 3
    /\ Len(req.res) = 2 /\ req.res[1].timestamp <= req.res[2].timestamp
    /\ \E i \in 1 .. 2 : req.res[i].provider # None

\* C27: under any interleaving of concurrent storeMessage calls on the same
\* conversation, every message for which storeMessage has returned is
\* afterwards returned by getMessages(conversationId, limit) for a limit at
\* least the number of stored messages.
C27_NoStoredMessageMissing ==
    (req.pc = "done" /\ req.limit >= Cardinality(req.known)) =>
        req.known \subseteq {req.res[i].id : i \in 1 .. Len(req.res)}

\* What does hold: the same when the calls ran one after another.
NoMessageMissingSequential ==
    (req.pc = "done" /\ req.sequential /\ req.limit >= Cardinality(req.known)) =>
        req.known \subseteq {req.res[i].id : i \in 1 .. Len(req.res)}

(***************************************************************************)
(* rateLimitByChittyId with requests handled concurrently (SpecRace): two  *)
(* request tasks, one step per await, within one window.  `run` holds the  *)
(* position of each task and the count it has read; `settled` lists, for   *)
(* each principal, the counts read by the requests that went on to next(), *)
(* in the order of their puts.                                             *)
(***************************************************************************)
RaceOptionValues == {o \in RateOptionValues : o.maxRequests < MaxRace}

RaceIdle == [pc |-> "idle", who |-> <<>>, count |-> 0]

\* String(count + 1), and a counter that counts each request twice.
countedTwice(count) == String(count + 2)

counted(count) == String(count + 1)

InitRace ==
    /\ heap = <<>>
    /\ arrs = <<>>
    /\ made = <<>>
    /\ nextUuid = 0
    /\ clock = 0
    /\ cap = 0
    /\ kv = [k \in {} |-> None]
    /\ req = None
    /\ got = <<>>
    /\ env = [kv |-> TRUE]
    /\ run = [t \in Tasks |-> RaceIdle]
    /\ settled = [p \in Principals |-> <<>>]
    /\ mw \in {[opts |-> o, total |-> 0, rejected |-> 0] : o \in RaceOptionValues}

\* The middleware of task t for a request of principal p, up to its put.
RaceGet(t, p) ==
    /\ run[t].pc = "idle"
    /\ mw.total < MaxRace
    /\ LET current == KvGet(kv, RateKey(p), clock)
           count == IF current # <<>> THEN parseInt(current[1]) ELSE 0
       IN IF count >= mw.opts.maxRequests
          THEN /\ mw' = [mw EXCEPT !.total = @ + 1, !.rejected = @ + 1]
               /\ run' = run
          ELSE /\ mw' = [mw EXCEPT !.total = @ + 1]
               /\ run' = [run EXCEPT ![t] = [pc |-> "put", who |-> p, count |-> count]]
    /\ UNCHANGED <<heap, arrs, made, nextUuid, clock, cap, kv, req, got, env, settled>>

\* The put of task t has resolved, and next() is called.
RacePut(t) ==
    /\ run[t].pc = "put"
    /\ kv' = KvPut(kv, RateKey(run[t].who), counted(run[t].count), mw.opts.windowSeconds, clock)
    /\ settled' = [settled EXCEPT ![run[t].who] = Append(@, run[t].count)]
    /\ run' = [run EXCEPT ![t] = RaceIdle]
    /\ UNCHANGED <<mw, heap, arrs, made, nextUuid, clock, cap, req, got, env>>

NextRace ==
    \/ \E t \in Tasks, p \in Principals : RaceGet(t, p)
    \/ \E t \in Tasks : RacePut(t)

SpecRace == InitRace /\ [][NextRace]_vars

\* The stored count of principal p, as the middleware reads it.
StoredCount(p) ==
    IF KvLive(kv, RateKey(p), clock) THEN parseInt(kv[RateKey(p)].val) ELSE 0

\* C23: the read-then-write of the rate limiter is not atomic: with two
\* requests of one principal handled concurrently both may read the same
\* count and both be admitted while the stored counter increases by one, so
\* that the stored count under-counts (it is the count read by the last
\* writer plus one, never more than the number of requests admitted) and
\* more than maxRequests requests can be admitted within one window.
C23_ReadThenWriteNotAtomic ==
    \A p \in Principals :
        LET reads == settled[p] IN
        /\ StoredCount(p) <= Len(reads)
        /\ reads # <<>> => StoredCount(p) = reads[Len(reads)] + 1
        /\ \A i \in 1 .. Len(reads) : reads[i] < mw.opts.maxRequests

\* Two requests have read the same count and gone on, the stored counter is
\* one, and more than maxRequests requests have been admitted.
C23_Witness ==
    \E p \in Principals :
        /\ Len(settled[p]) = 2 /\ settled[p][1] = settled[p][2]
        /\ StoredCount(p) = 1
        /\ Len(settled[p]) > mw.opts.maxRequests

\* Four requests admitted with maxRequests = 3.
RaceAdmitsBeyondMax ==
    \E p \in Principals : mw.opts.maxRequests = 3 /\ Len(settled[p]) = 4

(***************************************************************************)
(* Load, update, save by concurrent request tasks (SpecUpdate).  The store *)
(* holds StoreActive, saved before; each task loads it, applies            *)
(* recordOutcome or completeContext to what it loaded and saves the        *)
(* result, one step per await.  `got` lists the primary records written,   *)
(* in the order of the puts: the outcomes written and the outcomes the     *)
(* writer had loaded.                                                      *)
(***************************************************************************)
\* The store after a saveContext(env, ctx) that ran with no other task in
\* between its puts.
saveContext(store, ctx, outs, now) ==
    LET k1 == putPrimary(store, ctx, outs, now)
        k2 == KvPut(k1, ByChittyKey(ctx.chittyId, ctx.id), ctx.id, Ttl30Days, now)
        k3 == KvPut(k2, ByTypeKey(ctx.type, ctx.id), ctx.id, Ttl30Days, now)
        k4 == KvPut(k3, BySessionKey(ctx.sessionId, ctx.id), ctx.id, Ttl7Days, now)
    IN IF ctx.status = "active"
       THEN KvPut(k4, ActiveKey(ctx.chittyId, ctx.id), ctx.id, Ttl1Day, now)
       ELSE k4

\* The store after saveContext(env, StoreActive).
SavedActive == saveContext([k \in {} |-> None], StoreActive, <<>>, 0)

InitUpdate ==
    /\ heap = <<StoreActive>>
    /\ arrs = << <<>> >>
    /\ made = <<>>
    /\ nextUuid = 3
    /\ clock = 0
    /\ cap = 1 + 2 * MaxUpdates
    /\ kv = SavedActive
    /\ req = None
    /\ got = <<[outcomes |-> <<>>, loaded |-> <<>>]>>
    /\ env = [queue |-> FALSE]
    /\ run = [t \in Tasks |-> Idle]
    /\ settled = [i \in StoreIds |-> <<>>]
    /\ mw = None

\* const ctx = await loadContext(env, id): the parsed value is a new object
\* with a new outcomes array.
UpdateLoad(t, id) ==
    /\ run[t].pc \in {"idle", "saved"}
    /\ Len(heap) + 2 <= cap
    /\ loadContext(kv, id, clock) # <<>>
    /\ LET ctx == loadContext(kv, id, clock)[1]
       IN /\ arrs' = Append(arrs, ctx.outcomes)
          /\ heap' = Append(heap, [ctx EXCEPT !.outcomes = Len(arrs) + 1])
          /\ run' = [run EXCEPT ![t] = [Idle EXCEPT !.pc = "loaded", !.h = Len(heap) + 1,
                                                    !.id = id, !.want = <<ctx.outcomes>>]]
    /\ UNCHANGED <<mw, made, nextUuid, clock, cap, kv, req, got, env, settled>>

\* recordOutcome(ctx, o), or completeContext(ctx, success), on the loaded value.
Update(t, o, status) ==
    /\ run[t].pc = "loaded"
    /\ LET h == run[t].h
           x == newOutcome(o, Uuid(nextUuid + 1), clock)
           grown == SpreadAppend(arrs, heap[h].outcomes, x)
       IN /\ arrs' = grown
          /\ heap' = Append(heap, [recordOutcome(heap[h], o, clock, Len(grown))
                                     EXCEPT !.status = status])
          /\ run' = [run EXCEPT ![t].pc = "updated", ![t].h = Len(heap) + 1]
    /\ nextUuid' = nextUuid + 1
    /\ UNCHANGED <<mw, made, clock, cap, kv, req, got, env, settled>>

UpdateRecord(t, o) ==
    /\ run[t].pc = "loaded"
    /\ Update(t, o, heap[run[t].h].status)

UpdateComplete(t, success) ==
    /\ run[t].pc = "loaded"
    /\ Update(t, completeOutcome(heap[run[t].h], success), completeStatus(success))

\* saveContext(env, updated) up to its first put taking effect.
UpdateSave(t) ==
    /\ run[t].pc = "updated"
    /\ kv' = putPrimary(kv, heap[run[t].h], Outcomes(run[t].h), clock)
    /\ got' = Append(got, [outcomes |-> Outcomes(run[t].h), loaded |-> run[t].want[1]])
    /\ run' = [run EXCEPT ![t].pc = "byChitty"]
    /\ UNCHANGED <<mw, heap, arrs, made, nextUuid, clock, cap, req, env, settled>>

NextUpdate ==
    \/ \E t \in Tasks : UpdateLoad(t, StoreActive.id)
    \/ \E t \in Tasks, o \in ExtremeOutcomes : UpdateRecord(t, o)
    \/ \E t \in Tasks, b \in BOOLEAN : UpdateComplete(t, b)
    \/ \E t \in Tasks : UpdateSave(t)
    \/ \E t \in Tasks : SaveByChitty(t)
    \/ \E t \in Tasks : SaveByType(t)
    \/ \E t \in Tasks : SaveBySession(t)
    \/ \E t \in Tasks : SaveActive(t)

SpecUpdate == InitUpdate /\ [][NextUpdate]_vars

IsPrefix(s, t) == Len(s) <= Len(t) /\ SubSeq(t, 1, Len(s)) = s

\* C26: persisted outcomes are append-only under concurrency: when several
\* request tasks each load the same context id, apply recordOutcome (or
\* promote, demote, complete) and save, under every interleaving the
\* outcomes of each newly persisted primary record have the previously
\* persisted outcomes as a prefix, so that no outcome saved by one task is
\* lost by the save of another.
C26_PersistedAppendOnly ==
    \A i \in 2 .. Len(got) : IsPrefix(got[i - 1].outcomes, got[i].outcomes)

\* What does hold: each record written has the outcomes its writer loaded,
\* followed by one more.
WrittenExtendsLoaded ==
    \A i \in 2 .. Len(got) :
        /\ IsPrefix(got[i].loaded, got[i].outcomes)
        /\ Len(got[i].outcomes) = Len(got[i].loaded) + 1

\* Two saves whose loads both came before either put.
UpdateLost ==
    /\ Len(got) = 3
    /\ got[2].loaded = <<>> /\ got[3].loaded = <<>>
    /\ \A t \in Tasks : run[t].pc = "saved"
    /\ Len(loadContext(kv, StoreActive.id, clock)[1].outcomes) = 1

(***************************************************************************)
(* Index queries against a store filled by completed saves (SpecMarkers,   *)
(* SpecListing).  A save runs between queries, not during one; `got`       *)
(* lists the ids saved, in the order of their creation.                    *)
(***************************************************************************)
InitMarkers ==
    /\ heap = <<>>
    /\ arrs = <<>>
    /\ made = <<>>
    /\ nextUuid = 0
    /\ clock = 0
    /\ cap = MaxMarkers
    /\ kv = [k \in {} |-> None]
    /\ req = QIdle
    /\ got = <<>>
    /\ env = [queue |-> FALSE]
    /\ run = None
    /\ settled = None
    /\ mw = None

\* await saveContext(env, createContext(chittyId, type))
SaveCreated(chittyId, type) ==
    /\ QAtRest
    /\ Len(got) < cap
    /\ LET ctx == createContext(chittyId, type, NoOptions, Uuid(nextUuid + 1),
                                Uuid(nextUuid + 2), Uuid(nextUuid + 3), clock, 0)
       IN /\ kv' = saveContext(kv, ctx, <<>>, clock)
          /\ got' = Append(got, ctx.id)
    /\ nextUuid' = nextUuid + 3
    /\ req' = QIdle
    /\ UNCHANGED <<mw, heap, arrs, made, clock, cap, env, run, settled>>

\* The saved ids whose primary record is active and of the given type.
ActiveOfType(type) ==
    {id \in {got[i] : i \in 1 .. Len(got)} :
        \E p \in StoredPrimary(id) : p.status = "active" /\ p.type = type}

\* await saveContext(env, completeContext(await loadContext(env, id), true)).
\* The identifiers of the outcomes are drawn from a range of their own,
\* above those of the contexts.
SaveCompleted(id) ==
    /\ QAtRest
    /\ loadContext(kv, id, clock) # <<>>
    /\ LET ctx == loadContext(kv, id, clock)[1]
           o == completeOutcome(ctx, TRUE)
           uid == Uuid(3 * cap + Len(got) - Cardinality(ActiveOfType("session")) + 1)
           outs == Append(ctx.outcomes, newOutcome(o, uid, clock))
           done == [recordOutcome(ctx, o, clock, 0) EXCEPT !.status = completeStatus(TRUE)]
       IN kv' = saveContext(kv, done, outs, clock)
    /\ req' = QIdle
    /\ UNCHANGED <<mw, heap, arrs, made, nextUuid, clock, cap, got, env, run, settled>>

\* One principal with sessions, completed oldest first, and at most one
\* agent context.
NextMarkers ==
    \/ SaveCreated(IdUser, "session")
    \/ ActiveOfType("agent") = {} /\ SaveCreated(IdUser, "agent")
    \/ \E id \in ActiveOfType("session") :
          /\ \A other \in ActiveOfType("session") : id <= other
          /\ SaveCompleted(id)
    \/ \E ty \in ContextTypes : GetActiveContext(IdUser, ty)
    \/ QueryGet
    \/ QueryLoad

SpecMarkers == InitMarkers /\ [][NextMarkers]_vars

\* The readable active-context markers of a principal.
MarkersOf(chittyId) ==
    {k \in DOMAIN kv : k[1] = "ctx:active" /\ k[2] = chittyId /\ KvLive(kv, k, clock)}

\* The contexts of principal chittyId and the given type whose primary
\* record is active and whose marker is readable.
MarkedActiveOf(chittyId, type) ==
    {k[3] : k \in {k \in MarkersOf(chittyId) :
                     \E p \in StoredPrimary(k[3]) : p.status = "active" /\ p.type = type}}

\* C28: whenever the store holds, for principal P, a context of type T
\* whose primary record is active and whose active-context marker has not
\* expired, getActive(P, T) returns a context, however many other markers
\* (stale ones of completed contexts, or ones of other types) P has.
C28_GetActiveFindsActive ==
    (req.op = "getActive" /\ req.pc = "done" /\ MarkedActiveOf(req.chittyId, req.type) # {}) =>
        req.res # <<>>

\* What does hold: the same with at most ten markers for the principal.
GetActiveFindsWithinScan ==
    (/\ req.op = "getActive" /\ req.pc = "done"
     /\ MarkedActiveOf(req.chittyId, req.type) # {}
     /\ Cardinality(MarkersOf(req.chittyId)) <= ActiveScanLimit) =>
        req.res # <<>>

\* getActive has returned the agent context after passing stale markers
\* and markers of sessions.
GetActivePassedOthers ==
    /\ req.op = "getActive" /\ req.pc = "done" /\ req.type = "agent" /\ req.res # <<>>
    /\ req.i >= 3
    /\ \E k \in MarkersOf(req.chittyId) : \E p \in StoredPrimary(k[3]) : p.status = "completed"

\* Two principals saving contexts of either type, and listContexts by type.
TypedListOptionValues ==
    {[type |-> ty, status |-> "", limit |-> l] : ty \in ContextTypes, l \in {1, 2}}

InitListing ==
    /\ heap = <<>>
    /\ arrs = <<>>
    /\ made = <<>>
    /\ nextUuid = 0
    /\ clock = 0
    /\ cap = MaxCtx
    /\ kv = [k \in {} |-> None]
    /\ req = QIdle
    /\ got = <<>>
    /\ env = [queue |-> FALSE]
    /\ run = None
    /\ settled = None
    /\ mw = None

NextListing ==
    \/ \E c \in Principals, ty \in ContextTypes : SaveCreated(c, ty)
    \/ \E c \in Principals, o \in TypedListOptionValues : ListContexts(c, o)
    \/ QueryGet
    \/ QueryLoad

SpecListing == InitListing /\ [][NextListing]_vars

\* The saved contexts of the given type, and those of them that belong to
\* principal chittyId, by their readable primary records.
SavedOfType(type) ==
    {id \in {got[i] : i \in 1 .. Len(got)} : \E p \in StoredPrimary(id) : p.type = type}

SavedOf(chittyId, type) ==
    {id \in SavedOfType(type) : \E p \in StoredPrimary(id) : p.chittyId = chittyId}

\* C29: list(P, {type: T, limit: L}) returns min(L, n) contexts, n being the
\* number of unexpired saved contexts of principal P with type T, however
\* many contexts of type T other principals have saved.
C29_ListCountsOwn ==
    (Listed /\ req.type # "" /\ req.limit # None) =>
        Len(req.res) = Min(req.limit, Cardinality(SavedOf(req.chittyId, req.type)))

\* What does hold: never more than that, and exactly that when the type
\* index has no more than L entries or holds this principal's contexts only.
ListCountsOwnAlone ==
    (Listed /\ req.type # "" /\ req.limit # None) =>
        /\ Len(req.res) <= Min(req.limit, Cardinality(SavedOf(req.chittyId, req.type)))
        /\ (\/ SavedOfType(req.type) = SavedOf(req.chittyId, req.type)
            \/ Cardinality(SavedOfType(req.type)) <= req.limit) =>
               Len(req.res) = Min(req.limit, Cardinality(SavedOf(req.chittyId, req.type)))

\* A list by type has returned one of two contexts of the principal.
ListedOwnByType ==
    /\ Listed /\ req.type # "" /\ req.limit = 1 /\ Len(req.res) = 1
    /\ Cardinality(SavedOf(req.chittyId, req.type)) = 2

(***************************************************************************)
(* The context manager of the command line (SpecCli): createContext,       *)
(* switchContext and deleteContext on the configuration, which is in       *)
(* `run`: the name of the current context and the contexts object.  `got`  *)
(* holds the last call, how it ended, and the configuration before it.     *)
(* Context names are without dots.                                         *)
(***************************************************************************)
\* The service keys of the default context of the schema and of a context
\* made by createContext.
DefaultServices == {"cloudflare", "github", "google", "notion", "neon",
                    "onepassword", "openai", "anthropic"}
CreatedServices == {"cloudflare", "github", "google", "notion", "neon"}

\* A context: its service keys, each null.
ContextOf(services) == [k \in services |-> None]

\* The names a caller passes; toString names a property every object
\* inherits from Object.prototype.
ContextNames == {"default", "work", "dev", "toString"}
Inherited == {"toString"}

\* cloneFrom: "" when the argument is left out (null).
CloneValues == {""} \cup ContextNames

\* contexts[name] is truthy: an own key, or an inherited property.
hasOwn(contexts, name) == name \in DOMAIN contexts

truthy(contexts, name) == name \in DOMAIN contexts \/ name \in Inherited

\* { ...contexts[cloneFrom] }: the own keys of the value; a function
\* inherited from Object.prototype has none.
cloneOf(contexts, cloneFrom) ==
    IF cloneFrom \in DOMAIN contexts THEN contexts[cloneFrom] ELSE ContextOf({})

\* config.set(`contexts.${name}`, value) and config.delete(`contexts.${name}`)
configSet(contexts, name, value) ==
    [n \in DOMAIN contexts \cup {name} |-> IF n = name THEN value ELSE contexts[n]]

configDelete(contexts, name) == [n \in DOMAIN contexts \ {name} |-> contexts[n]]

InitCli ==
    /\ heap = <<>>
    /\ arrs = <<>>
    /\ made = <<>>
    /\ nextUuid = 0
    /\ clock = 0
    /\ cap = 0
    /\ kv = [k \in {} |-> None]
    /\ req = None
    /\ run = [current |-> "default",
              contexts |-> [n \in {"default"} |-> ContextOf(DefaultServices)]]
    /\ got = [op |-> "none", name |-> "", result |-> "none", prior |-> <<>>,
              calls |-> 0, inherited |-> FALSE]
    /\ env = None
    /\ settled = None
    /\ mw = None

\* The record of a call of op with name that ended with result.
Called(op, name, result) ==
    [op |-> op, name |-> name, result |-> result, prior |-> <<run>>,
     calls |-> got.calls + 1, inherited |-> got.inherited \/ name \in Inherited]

\* switchContext(contextName).  For a name that is not an own key of the
\* contexts object, applyContext reads a property of what
\* config.get(`contexts.${contextName}`) gives: it returns, or throws a
\* TypeError, after current has been set.
CliSwitchContext(name) ==
    /\ got.calls < MaxCalls
    /\ IF ~truthy(run.contexts, name)
       THEN /\ run' = run
            /\ got' = Called("switch", name, "threw")
       ELSE /\ run' = [run EXCEPT !.current = name]
            /\ \/ got' = Called("switch", name, "returned")
               \/ /\ ~hasOwn(run.contexts, name)
                  /\ got' = Called("switch", name, "threw")
    /\ UNCHANGED <<mw, heap, arrs, made, nextUuid, clock, cap, kv, req, env, settled>>

\* createContext(name, cloneFrom)
CliCreateContext(name, cloneFrom) ==
    /\ got.calls < MaxCalls
    /\ IF truthy(run.contexts, name)
       THEN /\ run' = run
            /\ got' = Called("create", name, "threw")
       ELSE /\ run' = [run EXCEPT !.contexts =
                         configSet(@, name,
                                   IF cloneFrom # "" /\ truthy(run.contexts, cloneFrom)
                                   THEN cloneOf(run.contexts, cloneFrom)
                                   ELSE ContextOf(CreatedServices))]
            /\ got' = Called("create", name, "returned")
    /\ UNCHANGED <<mw, heap, arrs, made, nextUuid, clock, cap, kv, req, env, settled>>

\* deleteContext(name)
CliDeleteContext(name) ==
    /\ got.calls < MaxCalls
    /\ IF name = "default" \/ run.current = name
       THEN /\ run' = run
            /\ got' = Called("delete", name, "threw")
       ELSE /\ run' = [run EXCEPT !.contexts = configDelete(@, name)]
            /\ got' = Called("delete", name, "returned")
    /\ UNCHANGED <<mw, heap, arrs, made, nextUuid, clock, cap, kv, req, env, settled>>

NextCli ==
    \/ \E n \in ContextNames : CliSwitchContext(n)
    \/ \E n \in ContextNames, c \in CloneValues : CliCreateContext(n, c)
    \/ \E n \in ContextNames : CliDeleteContext(n)

SpecCli == InitCli /\ [][NextCli]_vars

\* listContexts(): Object.keys(contexts)
CliListContexts == DOMAIN run.contexts

\* C30: after any sequence of createContext, switchContext and
\* deleteContext calls, successful or failing, from the default
\* configuration, the current context name refers to an existing context
\* and the context named default exists; a call that fails leaves the
\* configuration unchanged.
C30_CliConfiguration ==
    /\ run.current \in CliListContexts
    /\ "default" \in CliListContexts
    /\ got.result = "threw" => run = got.prior[1]

\* What does hold: the same as long as no call has named a property that
\* objects inherit; and default exists in any case.
CliConfigurationOwnNames ==
    /\ "default" \in CliListContexts
    /\ ~got.inherited =>
          /\ run.current \in CliListContexts
          /\ got.result = "threw" => run = got.prior[1]

\* A switch to a created context, and a refused delete of the current one.
CliSwitchedAndKept ==
    /\ run.current = "work" /\ ~got.inherited
    /\ got.op = "delete" /\ got.name = "work" /\ got.result = "threw"
    /\ Cardinality(CliListContexts) = 2

====
